---- MODULE Spec2Model ----
(***************************************************************************)
(* Dead Horizon: the turn engine of Game.handle_event (engine/game.py),    *)
(* the combat resolver (systems/combat.py), the monster AI                 *)
(* (entities/monster.py), the player record (entities/player.py) and the   *)
(* save/load snapshot (engine/save_system.py), as one state machine.       *)
(* One action is one call of Game.handle_event, run to completion.         *)
(***************************************************************************)
EXTENDS Integers, Sequences, FiniteSets, TLC

(***************************************************************************)
(* Bounds of the model: the size of the grid the dungeon is laid out on.   *)
(***************************************************************************)
MapWidth == 7
MapHeight == 5
\* Number of enemy-turn phases explored from a new game.
MaxTurns == 1
\* Height of the pile of items under the player up to which drops are explored.
MaxPile == 3
\* Level up to which direct XP awards are explored.
MaxLevel == 3

Max(a, b) == IF a >= b THEN a ELSE b
Min(a, b) == IF a <= b THEN a ELSE b
Abs(a) == IF a >= 0 THEN a ELSE 0 - a
Sign(d) == IF d = 0 THEN 0 ELSE IF d > 0 THEN 1 ELSE 0 - 1

(***************************************************************************)
(* Tile/grid model (map/tile.py, map/game_map.py).                         *)
(***************************************************************************)
Cells == (0 .. MapWidth - 1) \X (0 .. MapHeight - 1)
TileKinds == {"floor", "wall", "door_closed"}

\* tile.py: floor is walkable and transparent; wall and door_closed are neither.
TileWalkable(t) == t = "floor"
TileTransparent(t) == t = "floor"

in_bounds(x, y) == 0 <= x /\ x < MapWidth /\ 0 <= y /\ y < MapHeight

\* game_map.walkable[x, y]: a negative numpy index counts from the far edge.
NpIndex(i, n) == IF i < 0 THEN i + n ELSE i
walkable(tiles_, x, y) ==
    LET c == <<NpIndex(x, MapWidth), NpIndex(y, MapHeight)>>
    IN  c \in Cells /\ TileWalkable(tiles_[c])

\* The dungeon the game starts in: an outer ring of wall, a room with one
\* pillar, and a side corridor behind a wall with a closed door.
DoorCell == <<MapWidth - 3, 2>>
PillarCell == <<1, 1>>
StartTiles ==
    [c \in Cells |->
        IF c[1] = 0 \/ c[1] = MapWidth - 1 \/ c[2] = 0 \/ c[2] = MapHeight - 1
            THEN "wall"
        ELSE IF c = DoorCell THEN "door_closed"
        ELSE IF c[1] = MapWidth - 3 \/ c = PillarCell THEN "wall"
        ELSE "floor"]

(***************************************************************************)
(* Dungeon generation (map/procgen.py).  The random draws of                *)
(* generate_dungeon are its inputs: the rooms drawn, in order, and the      *)
(* corner each tunnel turns at.                                             *)
(***************************************************************************)
\* Smallest room side drawn on the grid of the model.
room_min_size == 2

RectangularRoom(x, y, width, height) ==
    [x1 |-> x, y1 |-> y, x2 |-> x + width, y2 |-> y + height]

center(r) == <<(r.x1 + r.x2) \div 2, (r.y1 + r.y2) \div 2>>

\* The cells of tiles[room.inner]: slice(x1 + 1, x2), slice(y1 + 1, y2).
inner(r) ==
    {c \in Cells : r.x1 + 1 <= c[1] /\ c[1] < r.x2 /\ r.y1 + 1 <= c[2] /\ c[2] < r.y2}

intersects_only_when_overlapping(a, b) ==
    a.x1 < b.x2 /\ a.x2 > b.x1 /\ a.y1 < b.y2 /\ a.y2 > b.y1

intersects(a, b) == a.x1 <= b.x2 /\ a.x2 >= b.x1 /\ a.y1 <= b.y2 /\ a.y2 >= b.y1

\* tunnel_between without the second line, from the corner to the end.
tunnel_between_first_leg_only(start, end, horizontal_first) ==
    LET corner == IF horizontal_first THEN <<end[1], start[2]>> ELSE <<start[1], end[2]>>
    IN  (Min(start[1], corner[1]) .. Max(start[1], corner[1]))
            \X (Min(start[2], corner[2]) .. Max(start[2], corner[2]))

\* tunnel_between: the two axis-parallel Bresenham lines through the corner.
tunnel_between(start, end, horizontal_first) ==
    LET corner == IF horizontal_first THEN <<end[1], start[2]>> ELSE <<start[1], end[2]>>
        Line(a, b) == (Min(a[1], b[1]) .. Max(a[1], b[1])) \X (Min(a[2], b[2]) .. Max(a[2], b[2]))
    IN  Line(start, corner) \cup Line(corner, end)

\* The rooms a draw can give: sides from room_min_size up to what fits,
\* x in 0 .. map_width - width - 1, y in 0 .. map_height - height - 1.
RoomDraws ==
    {RectangularRoom(x, y, w, h) :
        <<x, y, w, h>> \in
            {q \in (0 .. MapWidth) \X (0 .. MapHeight) \X (room_min_size .. MapWidth)
                       \X (room_min_size .. MapHeight) :
                q[1] <= MapWidth - q[3] - 1 /\ q[2] <= MapHeight - q[4] - 1}}

\* The room loop of generate_dungeon from draw k on: [tiles, rooms].
RECURSIVE DigRooms(_, _, _, _, _)
DigRooms(draws, horizontal_first, k, tiles_, rooms) ==
    IF k > Len(draws) THEN [tiles |-> tiles_, rooms |-> rooms]
    ELSE IF \E i \in 1 .. Len(rooms) : intersects(draws[k], rooms[i])
        THEN DigRooms(draws, horizontal_first, k + 1, tiles_, rooms)
    ELSE LET dug == inner(draws[k])
                      \cup (IF rooms # <<>>
                                THEN tunnel_between(center(rooms[Len(rooms)]),
                                                    center(draws[k]), horizontal_first)
                                ELSE {})
         IN  DigRooms(draws, horizontal_first, k + 1,
                      [c \in Cells |-> IF c \in dug THEN "floor" ELSE tiles_[c]],
                      Append(rooms, draws[k]))

\* The try_place_door calls of _place_doors for one room, in call order.
DoorTries(r) ==
    LET Try(cell, inside, outside) == [cell |-> cell, inside |-> inside, outside |-> outside]
        nx == Max(0, r.x2 - r.x1 - 2)
        ny == Max(0, r.y2 - r.y1 - 2)
    IN  [k \in 1 .. 2 * nx |->
            LET x == r.x1 + 1 + (k - 1) \div 2
            IN  IF k % 2 = 1 THEN Try(<<x, r.y1>>, <<x, r.y1 + 1>>, <<x, r.y1 - 1>>)
                ELSE Try(<<x, r.y2 - 1>>, <<x, r.y2 - 2>>, <<x, r.y2>>)]
        \o [k \in 1 .. 2 * ny |->
            LET y == r.y1 + 1 + (k - 1) \div 2
            IN  IF k % 2 = 1 THEN Try(<<r.x1, y>>, <<r.x1 + 1, y>>, <<r.x1 - 1, y>>)
                ELSE Try(<<r.x2 - 1, y>>, <<r.x2 - 2, y>>, <<r.x2, y>>)]

try_place_door_outside_unchecked(tiles_, t) ==
    IF ~in_bounds(t.outside[1], t.outside[2]) THEN tiles_
    ELSE IF tiles_[t.cell] = "wall" /\ t.inside \in Cells /\ tiles_[t.inside] = "floor"
        THEN [tiles_ EXCEPT ![t.cell] = "door_closed"]
    ELSE tiles_

\* game_map.tiles[x, y] as is_wall and is_floor read it: a negative numpy
\* index counts from the far edge.
TileAt(tiles_, c) == tiles_[<<NpIndex(c[1], MapWidth), NpIndex(c[2], MapHeight)>>]

try_place_door(tiles_, t) ==
    IF ~in_bounds(t.outside[1], t.outside[2]) THEN tiles_
    ELSE IF TileAt(tiles_, t.cell) = "wall" /\ TileAt(tiles_, t.inside) = "floor"
                /\ TileAt(tiles_, t.outside) = "floor"
        THEN [tiles_ EXCEPT ![t.cell] = "door_closed"]
    ELSE tiles_

\* _place_doors over the tries from number k on.
RECURSIVE place_doors(_, _, _)
place_doors(tiles_, tries, k) ==
    IF k > Len(tries) THEN tiles_
    ELSE place_doors(try_place_door(tiles_, tries[k]), tries, k + 1)

RECURSIVE AllDoorTries(_, _)
AllDoorTries(rooms, k) ==
    IF k > Len(rooms) THEN <<>> ELSE DoorTries(rooms[k]) \o AllDoorTries(rooms, k + 1)

\* generate_dungeon: the tiles, the rooms kept and the player's start.  With
\* no room kept, rooms[0] raises IndexError and nothing is returned.
generate_dungeon(draws, horizontal_first) ==
    LET dug == DigRooms(draws, horizontal_first, 1, [c \in Cells |-> "wall"], <<>>)
    IN  [tiles |-> place_doors(dug.tiles, AllDoorTries(dug.rooms, 1), 1),
         rooms |-> dug.rooms,
         start |-> IF dug.rooms = <<>> THEN "IndexError" ELSE center(dug.rooms[1])]

\* Every dungeon of two draws.
DungeonsFrom(draws) ==
    {generate_dungeon(<<a, b>>, hf) : a \in draws, b \in draws, hf \in BOOLEAN}

\* Two generated dungeons: one room over the whole grid, and two chambers
\* joined by a tunnel, the player starting in the right-hand one.
ArenaDungeon ==
    generate_dungeon(<< RectangularRoom(0, 0, MapWidth - 1, MapHeight - 1) >>, TRUE)
ChamberDungeon ==
    generate_dungeon(<< RectangularRoom(4, 0, MapWidth - 5, MapHeight - 1),
                        RectangularRoom(0, 0, 3, MapHeight - 1) >>, TRUE)
\* The same two chambers drawn in the other order: the player starts in the
\* left-hand one.
LeftChamberDungeon ==
    generate_dungeon(<< RectangularRoom(0, 0, 3, MapHeight - 1),
                        RectangularRoom(4, 0, MapWidth - 5, MapHeight - 1) >>, TRUE)

(***************************************************************************)
(* Field of view (GameMap.compute_fov calls tcod.map.compute_fov): a cell  *)
(* is lit when it lies within the radius and the segment between the two   *)
(* cell centres crosses the inside of no opaque cell.                      *)
(***************************************************************************)
Cross(o, c, b, sx, sy) ==
    (c[1] - o[1]) * (2 * (b[2] - o[2]) + sy) - (c[2] - o[2]) * (2 * (b[1] - o[1]) + sx)

Obstructs(b, o, c) ==
    /\ b # o /\ b # c
    /\ Min(o[1], c[1]) <= b[1] /\ b[1] <= Max(o[1], c[1])
    /\ Min(o[2], c[2]) <= b[2] /\ b[2] <= Max(o[2], c[2])
    /\ \E s \in {0 - 1, 1} \X {0 - 1, 1} : Cross(o, c, b, s[1], s[2]) > 0
    /\ \E s \in {0 - 1, 1} \X {0 - 1, 1} : Cross(o, c, b, s[1], s[2]) < 0

Opaque(tiles_) == {b \in Cells : ~TileTransparent(tiles_[b])}

FovOf(opaque, o, radius) ==
        {c \in Cells :
            /\ (c[1] - o[1]) * (c[1] - o[1]) + (c[2] - o[2]) * (c[2] - o[2])
                   <= radius * radius
            /\ \A b \in opaque : ~Obstructs(b, o, c)}

(***************************************************************************)
(* Player stats (entities/player.py PlayerStats and Player.__init__).      *)
(***************************************************************************)
MIN_STAT == 1
strength == 5
agility == 5
vitality == MIN_STAT
endurance == MIN_STAT
perception == 5

get_max_hp == 20 + vitality * 4
get_attack == 2 + strength
get_defense == endurance \div 2
get_crit_chance == 5 + agility
get_accuracy_bonus == perception * 2
get_fov_radius == 6 + perception \div 2
max_inventory_size == 20


(***************************************************************************)
(* Items (items/item.py).  An item instance is its template id and its     *)
(* stack size; every other field is read from the ITEMS table.  The table  *)
(* keeps one template of each kind that the inventory code distinguishes.  *)
(***************************************************************************)
ItemIds ==
    {"bandage", "knife", "fire_axe", "leather_jacket", "kevlar_vest", "riot_gear",
     "canned_food"}

ITEMS ==
    [id \in ItemIds |->
        CASE id = "bandage" ->
               [item_type |-> "CONSUMABLE", equip_slot |-> "NONE", damage |-> 0,
                defense |-> 0, accuracy |-> 0, crit_bonus |-> 0, hp_restore |-> 10,
                hunger_restore |-> 0, thirst_restore |-> 0, stackable |-> TRUE,
                max_stack |-> 10]
          [] id = "knife" ->
               [item_type |-> "WEAPON", equip_slot |-> "WEAPON", damage |-> 2,
                defense |-> 0, accuracy |-> 10, crit_bonus |-> 10, hp_restore |-> 0,
                hunger_restore |-> 0, thirst_restore |-> 0, stackable |-> FALSE,
                max_stack |-> 1]
          [] id = "fire_axe" ->
               [item_type |-> "WEAPON", equip_slot |-> "WEAPON", damage |-> 7,
                defense |-> 0, accuracy |-> 0 - 10, crit_bonus |-> 15, hp_restore |-> 0,
                hunger_restore |-> 0, thirst_restore |-> 0, stackable |-> FALSE,
                max_stack |-> 1]
          [] id = "riot_gear" ->
               [item_type |-> "ARMOR", equip_slot |-> "ARMOR", damage |-> 0,
                defense |-> 4, accuracy |-> 0 - 5, crit_bonus |-> 0, hp_restore |-> 0,
                hunger_restore |-> 0, thirst_restore |-> 0, stackable |-> FALSE,
                max_stack |-> 1]
          [] id = "leather_jacket" ->
               [item_type |-> "ARMOR", equip_slot |-> "ARMOR", damage |-> 0,
                defense |-> 1, accuracy |-> 0, crit_bonus |-> 0, hp_restore |-> 0,
                hunger_restore |-> 0, thirst_restore |-> 0, stackable |-> FALSE,
                max_stack |-> 1]
          [] id = "kevlar_vest" ->
               [item_type |-> "ARMOR", equip_slot |-> "ARMOR", damage |-> 0,
                defense |-> 3, accuracy |-> 0, crit_bonus |-> 0, hp_restore |-> 0,
                hunger_restore |-> 0, thirst_restore |-> 0, stackable |-> FALSE,
                max_stack |-> 1]
          [] id = "canned_food" ->
               [item_type |-> "CONSUMABLE", equip_slot |-> "NONE", damage |-> 0,
                defense |-> 0, accuracy |-> 0, crit_bonus |-> 0, hp_restore |-> 0,
                hunger_restore |-> 30, thirst_restore |-> 0, stackable |-> TRUE,
                max_stack |-> 5]]

\* An empty equipment slot (None in the source).
NoItem == [id |-> "none", stack_size |-> 0]

\* create_item(item_id): a fresh copy of the template, stack_size at its default.
create_item(id) == [id |-> id, stack_size |-> 1]

(***************************************************************************)
(* Monsters (entities/monster.py).                                         *)
(***************************************************************************)
ZombieTypes == {"ZOMBIE", "FAST", "BRUTE", "CRAWLER", "SKELETON"}

ZOMBIE_CONFIGS ==
    [t \in ZombieTypes |->
        CASE t = "ZOMBIE"   -> [hp |-> 10, attack |-> 3, defense |-> 0]
          [] t = "FAST"     -> [hp |-> 6,  attack |-> 2, defense |-> 0]
          [] t = "BRUTE"    -> [hp |-> 20, attack |-> 5, defense |-> 2]
          [] t = "CRAWLER"  -> [hp |-> 5,  attack |-> 4, defense |-> 0]
          [] t = "SKELETON" -> [hp |-> 8,  attack |-> 3, defense |-> 1]]

\* Monster.spawn_zombie; id is the identity of the Python object.
spawn_zombie(id, x, y, zombie_type) ==
    [id |-> id, zombie_type |-> zombie_type, x |-> x, y |-> y,
     hp |-> ZOMBIE_CONFIGS[zombie_type].hp, max_hp |-> ZOMBIE_CONFIGS[zombie_type].hp]

(***************************************************************************)
(* Player (entities/player.py).                                            *)
(***************************************************************************)
NewPlayer(x, y) ==
    [x |-> x, y |-> y, hp |-> get_max_hp, max_hp |-> get_max_hp,
     hunger |-> 100, thirst |-> 100, level |-> 1, xp |-> 0, xp_to_next_level |-> 100,
     inventory |-> <<>>, equipped_weapon |-> NoItem, equipped_armor |-> NoItem]

get_total_attack(p) ==
    get_attack + (IF p.equipped_weapon # NoItem THEN ITEMS[p.equipped_weapon.id].damage ELSE 0)

get_total_defense(p) ==
    get_defense + (IF p.equipped_armor # NoItem THEN ITEMS[p.equipped_armor.id].defense ELSE 0)

get_total_accuracy(p) ==
    get_accuracy_bonus
      + (IF p.equipped_weapon # NoItem THEN ITEMS[p.equipped_weapon.id].accuracy ELSE 0)
      + (IF p.equipped_armor # NoItem THEN ITEMS[p.equipped_armor.id].accuracy ELSE 0)

get_total_crit_bonus(p) ==
    (get_crit_chance - 5)
      + (IF p.equipped_weapon # NoItem THEN ITEMS[p.equipped_weapon.id].crit_bonus ELSE 0)
      + (IF p.equipped_armor # NoItem THEN ITEMS[p.equipped_armor.id].crit_bonus ELSE 0)

\* level_up without the full heal.
level_up_keeps_hp(p) ==
    [p EXCEPT !.level = p.level + 1,
              !.xp = p.xp - p.xp_to_next_level,
              !.xp_to_next_level = (p.xp_to_next_level * 3) \div 2,
              !.max_hp = p.max_hp + 5 + vitality \div 2]

\* Player.level_up
level_up(p) ==
    LET new_max == p.max_hp + 5 + vitality \div 2
    IN  [p EXCEPT !.level = p.level + 1,
                  !.xp = p.xp - p.xp_to_next_level,
                  !.xp_to_next_level = (p.xp_to_next_level * 3) \div 2,
                  !.max_hp = new_max,
                  !.hp = new_max]

\* gain_xp with the level-up test xp > xp_to_next_level.
gain_xp_above_threshold(p, amount) ==
    LET q == [p EXCEPT !.xp = p.xp + amount]
    IN  IF q.xp > q.xp_to_next_level THEN level_up(q) ELSE q

\* Player.gain_xp: at most one level_up per award.
gain_xp(p, amount) ==
    LET q == [p EXCEPT !.xp = p.xp + amount]
    IN  IF q.xp >= q.xp_to_next_level THEN level_up(q) ELSE q

(***************************************************************************)
(* Combat resolver (systems/combat.py).  The random draws of one attack    *)
(* are its inputs: three 1..100 rolls and the damage variance.  Because    *)
(* the hit chance lies in 5..95 and the crit chance in 10..50, the rolls   *)
(* 1 and 100 produce every outcome the resolver can produce.               *)
(***************************************************************************)
BASE_HIT_CHANCE == 85
BASE_CRIT_CHANCE == 10
Rolls == {1, 100}
Variances == {0 - 1, 2}
RollSpace == [hit : Rolls, crit : Rolls, block : Rolls, variance : Variances]

\* How calculate_hit_chance, calculate_crit_chance and calculate_damage see
\* the player and a monster, as attacker and as defender.
PlayerAttacker(p) ==
    [attack_bonus |-> get_total_accuracy(p), crit_bonus |-> get_total_crit_bonus(p),
     attack_power |-> get_total_attack(p)]
MonsterAttacker(m) ==
    [attack_bonus |-> ZOMBIE_CONFIGS[m.zombie_type].attack * 2, crit_bonus |-> 0,
     attack_power |-> ZOMBIE_CONFIGS[m.zombie_type].attack]
PlayerDefender(p) ==
    [dodge_penalty |-> get_total_defense(p) * 3, defense |-> get_total_defense(p)]
MonsterDefender(m) ==
    [dodge_penalty |-> ZOMBIE_CONFIGS[m.zombie_type].defense * 5
                         + (IF m.zombie_type = "CRAWLER" THEN 15 ELSE 0),
     defense |-> ZOMBIE_CONFIGS[m.zombie_type].defense]

\* calculate_hit_chance without the clamp into 5 .. 95.
calculate_hit_chance_unclamped(att, def) ==
    BASE_HIT_CHANCE + att.attack_bonus - def.dodge_penalty

calculate_hit_chance(att, def) ==
    Max(5, Min(95, BASE_HIT_CHANCE + att.attack_bonus - def.dodge_penalty))

calculate_crit_chance(att) == Min(50, BASE_CRIT_CHANCE + att.crit_bonus)

\* roll_attack with the block check made before the critical check.
roll_attack_block_before_crit(att, def, r) ==
    IF r.hit > calculate_hit_chance(att, def) THEN "MISS"
    ELSE IF def.defense >= 3 /\ r.block <= def.defense * 5 THEN "BLOCKED"
    ELSE IF r.crit <= calculate_crit_chance(att) THEN "CRITICAL"
    ELSE "HIT"

roll_attack(att, def, r) ==
    IF r.hit > calculate_hit_chance(att, def) THEN "MISS"
    ELSE IF r.crit <= calculate_crit_chance(att) THEN "CRITICAL"
    ELSE IF def.defense >= 3 /\ r.block <= def.defense * 5 THEN "BLOCKED"
    ELSE "HIT"

\* calculate_damage without the minimum of 1.
calculate_damage_unfloored(att, def, is_critical, variance) ==
    LET damage == att.attack_power - def.defense \div 2 + variance
    IN  IF is_critical THEN damage * 2 ELSE damage

\* calculate_damage with the minimum of 1 taken before the critical multiplier.
calculate_damage_floor_then_double(att, def, is_critical, variance) ==
    LET damage == Max(1, att.attack_power - def.defense \div 2 + variance)
    IN  IF is_critical THEN damage * 2 ELSE damage

calculate_damage(att, def, is_critical, variance) ==
    LET damage == att.attack_power - def.defense \div 2 + variance
    IN  Max(1, IF is_critical THEN damage * 2 ELSE damage)

\* perform_attack calling apply_knockback after every attack that did not miss.
AttackOutcome_knockback_unless_miss(att, def, r) ==
    LET result == roll_attack(att, def, r)
    IN  CASE result = "MISS" -> [result |-> result, damage |-> 0, knockback |-> FALSE]
          [] result = "BLOCKED" ->
               [result |-> result,
                damage |-> Max(0, calculate_damage(att, def, FALSE, r.variance) \div 3),
                knockback |-> TRUE]
          [] OTHER ->
               [result |-> result,
                damage |-> calculate_damage(att, def, result = "CRITICAL", r.variance),
                knockback |-> TRUE]

\* Combat.perform_attack, up to the state change: the result, the damage
\* taken from the defender's hp and whether apply_knockback is called.
AttackOutcome(att, def, r) ==
    LET result == roll_attack(att, def, r)
    IN  CASE result = "MISS" -> [result |-> result, damage |-> 0, knockback |-> FALSE]
          [] result = "BLOCKED" ->
               [result |-> result,
                damage |-> Max(0, calculate_damage(att, def, FALSE, r.variance) \div 3),
                knockback |-> FALSE]
          [] OTHER ->
               LET damage == calculate_damage(att, def, result = "CRITICAL", r.variance)
               IN  [result |-> result, damage |-> damage,
                    knockback |-> (result = "CRITICAL" \/ damage >= 6)]

AttackOutcomes(att, def) == {AttackOutcome(att, def, r) : r \in RollSpace}


(***************************************************************************)
(* The state of a Game object.                                             *)
(***************************************************************************)
VARIABLES
    state,            \* Game.state: "playing", "inventory", "paused" ("game_over" is never assigned)
    game_over,        \* Game.game_over
    player,           \* Game.player
    entities,         \* Game.entities without its first entry, the player: the monsters, in list order
    ground_items,     \* Game.ground_items: cell -> list of items, keys as in the dict
    kills,            \* Game.kills
    tiles,            \* Game.game_map.tiles
    visible,          \* Game.game_map.visible, as the set of lit cells
    explored,         \* Game.game_map.explored, as the set of explored cells
    inventory_screen, \* Game.inventory_screen (NoScreen when None)
    pause_selection,  \* Game.pause_selection
    savefile,         \* content of the save file of slot 0
    last_input,       \* the event (PLAYING: the action handle_keys returned) handled by the last call
    ai_steps,         \* ids of the monsters whose take_turn ran in the last call, in call order
    msgs,             \* messages the last call appended to Game.messages
    ticks,            \* number of effects.tick() calls in the last call
    turns,            \* number of enemy-turn phases run since the game was constructed
    ret               \* what the last call returned, and the result of its save_game/load_game

vars == <<state, game_over, player, entities, ground_items, kills, tiles, visible,
          explored, inventory_screen, pause_selection, savefile, last_input,
          ai_steps, msgs, ticks, turns, ret>>

\* The part of the game a turn can change, as one value.
Turn ==
    [player |-> player, entities |-> entities, ground_items |-> ground_items,
     kills |-> kills, game_over |-> game_over, visible |-> visible,
     explored |-> explored, ai_steps |-> <<>>, msgs |-> <<>>, ticks |-> 0]

\* Game.add_message, for the messages of the current call.
add_message(g, text) == [g EXCEPT !.msgs = Append(@, text)]

\* Game._add_ground_item
add_ground_item(gi, x, y, item) ==
    IF <<x, y>> \in DOMAIN gi
        THEN [gi EXCEPT ![<<x, y>>] = Append(@, item)]
        ELSE (<<x, y>> :> <<item>>) @@ gi

\* Game._get_ground_items
get_ground_items(gi, x, y) == IF <<x, y>> \in DOMAIN gi THEN gi[<<x, y>>] ELSE <<>>

\* list.remove(item): drops the first entry equal to item.
RemoveAt(seq, i) == SubSeq(seq, 1, i - 1) \o SubSeq(seq, i + 1, Len(seq))
\* Item is a dataclass: == compares the fields of two items, whichever
\* objects they are.
ItemEq(a, b) == <<a.id, a.stack_size>> = <<b.id, b.stack_size>>
IndexOf(seq, e) ==
    IF \E i \in 1 .. Len(seq) : ItemEq(seq[i], e)
        THEN CHOOSE i \in 1 .. Len(seq) :
                 ItemEq(seq[i], e) /\ \A j \in 1 .. i - 1 : ~ItemEq(seq[j], e)
        ELSE 0
\* With no equal entry (index 0) the list stays as it is.
ListRemove(seq, e) == RemoveAt(seq, IndexOf(seq, e))

\* _remove_ground_item without the deletion of an emptied key.
remove_ground_item_keeps_empty_key(gi, x, y, item) ==
    IF <<x, y>> \in DOMAIN gi /\ IndexOf(gi[<<x, y>>], item) # 0
        THEN [gi EXCEPT ![<<x, y>>] = ListRemove(gi[<<x, y>>], item)]
        ELSE gi

\* Game._remove_ground_item
remove_ground_item(gi, x, y, item) ==
    IF <<x, y>> \in DOMAIN gi /\ IndexOf(gi[<<x, y>>], item) # 0
        THEN LET rest == ListRemove(gi[<<x, y>>], item)
             IN  IF rest = <<>>
                     THEN [c \in DOMAIN gi \ {<<x, y>>} |-> gi[c]]
                     ELSE [gi EXCEPT ![<<x, y>>] = rest]
        ELSE gi

\* GameMap.compute_fov at the player's radius.  The dungeon's transparency
\* never changes in play, so its fields of view are tabulated once.
RECURSIVE Lit(_, _, _)
Lit(opaque, o, todo) ==
    IF todo = {} THEN {}
    ELSE LET c == CHOOSE c \in todo : TRUE
         IN  (IF c \in FovOf(opaque, o, get_fov_radius) THEN {c} ELSE {})
                 \cup Lit(opaque, o, todo \ {c})

RECURSIVE FovTable(_, _)
FovTable(opaque, todo) ==
    IF todo = {} THEN <<>>
    ELSE LET o == CHOOSE o \in todo : TRUE
         IN  (o :> Lit(opaque, o, Cells)) @@ FovTable(opaque, todo \ {o})

\* The fields of view of the dungeons the games of the model are played on.
KnownFov ==
    [op \in {Opaque(StartTiles), Opaque(ArenaDungeon.tiles), Opaque(ChamberDungeon.tiles)} |->
        FovTable(op, Cells)]

FovLookup(known, opaque, o) ==
    IF opaque \in DOMAIN known THEN known[opaque][o]
    ELSE FovOf(opaque, o, get_fov_radius)

compute_fov(tiles_, o) == FovLookup(KnownFov, Opaque(tiles_), o)

\* recompute_fov that assigns explored instead of or-ing into it.
recompute_fov_forgets_explored(g, tiles_) ==
    LET lit == compute_fov(tiles_, <<g.player.x, g.player.y>>)
    IN  [g EXCEPT !.visible = lit, !.explored = lit]

\* recompute_fov that updates explored and leaves visible as it was.
recompute_fov_keeps_visible(g, tiles_) ==
    [g EXCEPT !.explored = g.explored \cup compute_fov(tiles_, <<g.player.x, g.player.y>>)]

\* Game.recompute_fov with GameMap.compute_fov: visible is overwritten,
\* explored accumulates.
recompute_fov(g, tiles_) ==
    LET lit == compute_fov(tiles_, <<g.player.x, g.player.y>>)
    IN  [g EXCEPT !.visible = lit, !.explored = g.explored \cup lit]

\* Game._get_blocking_entity_at: index in entities of the first monster on
\* the cell, 0 for None.  The player is never returned.
get_blocking_entity_at(ents, x, y) ==
    IF \E i \in 1 .. Len(ents) : ents[i].x = x /\ ents[i].y = y
        THEN CHOOSE i \in 1 .. Len(ents) :
                 /\ ents[i].x = x /\ ents[i].y = y
                 /\ \A j \in 1 .. i - 1 : ~(ents[j].x = x /\ ents[j].y = y)
        ELSE 0

\* apply_knockback without the walkability test.
apply_knockback_through_walls(tiles_, ents, ax, ay, dx_, dy_) ==
    LET new_x == dx_ + Sign(dx_ - ax)
        new_y == dy_ + Sign(dy_ - ay)
    IN  IF get_blocking_entity_at(ents, new_x, new_y) = 0
            THEN <<new_x, new_y>>
            ELSE <<dx_, dy_>>

\* Combat.apply_knockback: the cell the defender stands on afterwards.
apply_knockback(tiles_, ents, ax, ay, dx_, dy_) ==
    LET new_x == dx_ + Sign(dx_ - ax)
        new_y == dy_ + Sign(dy_ - ay)
    IN  IF walkable(tiles_, new_x, new_y) /\ get_blocking_entity_at(ents, new_x, new_y) = 0
            THEN <<new_x, new_y>>
            ELSE <<dx_, dy_>>

(***************************************************************************)
(* Monster AI (Monster.take_turn).                                         *)
(***************************************************************************)
\* _move_towards_player without the occupancy tests.
move_towards_player_through_entities(tiles_, ents, m, dx, dy) ==
    IF walkable(tiles_, m.x + Sign(dx), m.y + Sign(dy))
        THEN <<m.x + Sign(dx), m.y + Sign(dy)>>
        ELSE <<m.x, m.y>>

\* _move_towards_player without the horizontal and vertical fallback.
move_towards_player_no_fallback(tiles_, ents, m, dx, dy) ==
    IF walkable(tiles_, m.x + Sign(dx), m.y + Sign(dy))
           /\ get_blocking_entity_at(ents, m.x + Sign(dx), m.y + Sign(dy)) = 0
        THEN <<m.x + Sign(dx), m.y + Sign(dy)>>
        ELSE <<m.x, m.y>>

\* Monster._move_towards_player: the monster's cell afterwards.
move_towards_player(tiles_, ents, m, dx, dy) ==
    LET step_x == Sign(dx)
        step_y == Sign(dy)
        dest_x == m.x + step_x
        dest_y == m.y + step_y
    IN  IF ~walkable(tiles_, dest_x, dest_y) THEN <<m.x, m.y>>
        ELSE IF get_blocking_entity_at(ents, dest_x, dest_y) = 0 THEN <<dest_x, dest_y>>
        ELSE IF step_x # 0 /\ step_y # 0
            THEN IF walkable(tiles_, m.x + step_x, m.y)
                      /\ get_blocking_entity_at(ents, m.x + step_x, m.y) = 0
                     THEN <<m.x + step_x, m.y>>
                 ELSE IF walkable(tiles_, m.x, m.y + step_y)
                      /\ get_blocking_entity_at(ents, m.x, m.y + step_y) = 0
                     THEN <<m.x, m.y + step_y>>
                 ELSE <<m.x, m.y>>
        ELSE <<m.x, m.y>>

MoveMonster(ents, i, pos) == [ents EXCEPT ![i].x = pos[1], ![i].y = pos[2]]

\* The chase branch with a second step for every FAST zombie, whatever the
\* distance it started at.
Chase_second_step_at_any_distance(tiles_, g, i, distance) ==
    LET m == g.entities[i]
        p1 == move_towards_player(tiles_, g.entities, m, g.player.x - m.x, g.player.y - m.y)
        e1 == MoveMonster(g.entities, i, p1)
        m1 == e1[i]
        p2 == move_towards_player(tiles_, e1, m1, g.player.x - m1.x, g.player.y - m1.y)
    IN  IF m.zombie_type = "FAST"
            THEN [g EXCEPT !.entities = MoveMonster(e1, i, p2)]
            ELSE [g EXCEPT !.entities = e1]

\* The chase branch of take_turn: one step, and a second one for a FAST
\* zombie that started more than 2 cells away.
Chase(tiles_, g, i, distance) ==
    LET m == g.entities[i]
        p1 == move_towards_player(tiles_, g.entities, m, g.player.x - m.x, g.player.y - m.y)
        e1 == MoveMonster(g.entities, i, p1)
        m1 == e1[i]
        p2 == move_towards_player(tiles_, e1, m1, g.player.x - m1.x, g.player.y - m1.y)
    IN  IF m.zombie_type = "FAST" /\ distance > 2
            THEN [g EXCEPT !.entities = MoveMonster(e1, i, p2)]
            ELSE [g EXCEPT !.entities = e1]

\* Monster._attack_player with Combat.perform_attack on the player.
attack_player(tiles_, g, i, o) ==
    LET m == g.entities[i]
        pos == IF o.knockback
                   THEN apply_knockback(tiles_, g.entities, m.x, m.y, g.player.x, g.player.y)
                   ELSE <<g.player.x, g.player.y>>
    IN  add_message([g EXCEPT !.player.hp = @ - o.damage,
                              !.player.x = pos[1],
                              !.player.y = pos[2]],
                    "monster_attack")

\* take_turn without the visibility test.
take_turn_ignores_visibility(tiles_, g, i) ==
    LET m == g.entities[i]
        g1 == [g EXCEPT !.ai_steps = Append(@, m.id)]
        distance == Max(Abs(g.player.x - m.x), Abs(g.player.y - m.y))
    IN  IF distance <= 1
            THEN {attack_player(tiles_, g1, i, o) :
                      o \in AttackOutcomes(MonsterAttacker(m), PlayerDefender(g.player))}
        ELSE IF distance <= 8 THEN {Chase(tiles_, g1, i, distance)}
        ELSE {g1}

\* Monster.take_turn of entities[i]: every state it can leave the game in.
take_turn(tiles_, g, i) ==
    LET m == g.entities[i]
        g1 == [g EXCEPT !.ai_steps = Append(@, m.id)]
        distance == Max(Abs(g.player.x - m.x), Abs(g.player.y - m.y))
    IN  IF <<m.x, m.y>> \notin g.visible THEN {g1}
        ELSE IF distance <= 1
            THEN {attack_player(tiles_, g1, i, o) :
                      o \in AttackOutcomes(MonsterAttacker(m), PlayerDefender(g.player))}
        ELSE IF distance <= 8 THEN {Chase(tiles_, g1, i, distance)}
        ELSE {g1}

\* The loop of Game._process_enemy_turns from entry i on, over a set of
\* possible games (all with the same entity list length).
RECURSIVE EnemyLoop(_, _, _, _)
EnemyLoop(tiles_, gs, i, n) ==
    IF i > n THEN gs
    ELSE EnemyLoop(tiles_, UNION {take_turn(tiles_, g, i) : g \in gs}, i + 1, n)

\* The terminal check written as hp == 0.
GameOverCheck_only_at_zero(g) ==
    IF g.player.hp = 0
        THEN add_message([g EXCEPT !.game_over = TRUE], "you_died")
        ELSE g

\* The end of Game._process_enemy_turns.
GameOverCheck(g) ==
    IF g.player.hp <= 0
        THEN add_message([g EXCEPT !.game_over = TRUE], "you_died")
        ELSE g

\* _process_enemy_turns with a loop that skips the first list entry.
process_enemy_turns_from_second(tiles_, g) ==
    {GameOverCheck(h) : h \in EnemyLoop(tiles_, {g}, 2, Len(g.entities))}

process_enemy_turns(tiles_, g) ==
    {GameOverCheck(h) : h \in EnemyLoop(tiles_, {g}, 1, Len(g.entities))}

\* EffectsManager.tick
effects_tick(g) == [g EXCEPT !.ticks = @ + 1]


(***************************************************************************)
(* Game._handle_move                                                       *)
(***************************************************************************)
\* What a kill can drop: nothing, or get_random_item(), here a consumable
\* or a piece of armour.
DropChoices == {NoItem} \cup {create_item(id) : id \in {"bandage", "leather_jacket"}}

\* The kill branch without entities.remove(target).
KillTarget_keeps_target(g, t, drop) ==
    LET m == g.entities[t]
        p1 == gain_xp(g.player, 10 + m.max_hp)
        g1 == add_message([g EXCEPT !.kills = @ + 1, !.player = p1], "monster_dead")
    IN  IF drop = NoItem THEN g1
        ELSE add_message([g1 EXCEPT !.ground_items = add_ground_item(@, m.x, m.y, drop)],
                         "monster_dropped")

\* The kill branch of _handle_move for entities[t], already at hp <= 0.
KillTarget(g, t, drop) ==
    LET m == g.entities[t]
        xp_gained == 10 + m.max_hp
        p1 == gain_xp(g.player, xp_gained)
        g1 == [g EXCEPT !.kills = @ + 1, !.player = p1]
        g2 == IF p1.level > g.player.level THEN add_message(g1, "level_up") ELSE g1
        g3 == [add_message(g2, "monster_dead") EXCEPT !.entities = RemoveAt(g.entities, t)]
    IN  IF drop = NoItem THEN g3
        ELSE add_message([g3 EXCEPT !.ground_items = add_ground_item(@, m.x, m.y, drop)],
                         "monster_dropped")

\* Combat.perform_attack of the player on entities[t] with outcome o.
PlayerHit(tiles_, g, t, o) ==
    LET m == g.entities[t]
        pos == IF o.knockback
                   THEN apply_knockback(tiles_, g.entities, g.player.x, g.player.y, m.x, m.y)
                   ELSE <<m.x, m.y>>
    IN  add_message([g EXCEPT !.entities[t].hp = @ - o.damage,
                              !.entities[t].x = pos[1],
                              !.entities[t].y = pos[2]],
                    "player_attack")

\* The attack branch in which the player steps into the cell of a target
\* that died.
PlayerAttack_steps_in(tiles_, g, t) ==
    LET m == g.entities[t]
    IN  UNION {IF PlayerHit(tiles_, g, t, o).entities[t].hp <= 0
                   THEN {[KillTarget(PlayerHit(tiles_, g, t, o), t, drop)
                             EXCEPT !.player.x = m.x, !.player.y = m.y] :
                         drop \in DropChoices}
                   ELSE {PlayerHit(tiles_, g, t, o)} :
               o \in AttackOutcomes(PlayerAttacker(g.player), MonsterDefender(m))}

\* The attack branch of _handle_move up to the enemy phase:
\* Combat.perform_attack on entities[t], then the kill branch.
PlayerAttack(tiles_, g, t) ==
    LET m == g.entities[t]
    IN  UNION {IF PlayerHit(tiles_, g, t, o).entities[t].hp <= 0
                   THEN {KillTarget(PlayerHit(tiles_, g, t, o), t, drop) : drop \in DropChoices}
                   ELSE {PlayerHit(tiles_, g, t, o)} :
               o \in AttackOutcomes(PlayerAttacker(g.player), MonsterDefender(m))}

\* The move branch of _handle_move up to the enemy phase.
PlayerStep(tiles_, g, dest_x, dest_y) ==
    LET g1 == recompute_fov([g EXCEPT !.player.x = dest_x, !.player.y = dest_y], tiles_)
    IN  IF get_ground_items(g.ground_items, dest_x, dest_y) # <<>>
            THEN add_message(g1, "you_see_items")
            ELSE g1

EnemyPhaseAndTick(tiles_, gs) ==
    {effects_tick(h) : h \in UNION {process_enemy_turns(tiles_, g) : g \in gs}}

\* _handle_move without the early return at an unwalkable destination.
handle_move_bump_takes_turn(tiles_, g, dx, dy) ==
    LET dest_x == g.player.x + dx
        dest_y == g.player.y + dy
        target == get_blocking_entity_at(g.entities, dest_x, dest_y)
    IN  IF target # 0 THEN EnemyPhaseAndTick(tiles_, PlayerAttack(tiles_, g, target))
        ELSE IF ~walkable(tiles_, dest_x, dest_y) THEN EnemyPhaseAndTick(tiles_, {g})
        ELSE EnemyPhaseAndTick(tiles_, {PlayerStep(tiles_, g, dest_x, dest_y)})

handle_move(tiles_, g, dx, dy) ==
    LET dest_x == g.player.x + dx
        dest_y == g.player.y + dy
        target == get_blocking_entity_at(g.entities, dest_x, dest_y)
    IN  IF target # 0 THEN EnemyPhaseAndTick(tiles_, PlayerAttack(tiles_, g, target))
        ELSE IF ~walkable(tiles_, dest_x, dest_y) THEN {g}
        ELSE EnemyPhaseAndTick(tiles_, {PlayerStep(tiles_, g, dest_x, dest_y)})

\* The games a turn-consuming call can be in when its enemy phase begins:
\* after "You wait.", after a step, after an attack.
PlayerPhase(tiles_, g) ==
    {add_message(g, "you_wait")}
        \cup UNION {LET dest_x == g.player.x + d[1]
                        dest_y == g.player.y + d[2]
                        target == get_blocking_entity_at(g.entities, dest_x, dest_y)
                    IN  IF target # 0 THEN PlayerAttack(tiles_, g, target)
                        ELSE IF ~walkable(tiles_, dest_x, dest_y) THEN {}
                        ELSE {PlayerStep(tiles_, g, dest_x, dest_y)} :
                    d \in {e \in {0 - 1, 0, 1} \X {0 - 1, 0, 1} : e # <<0, 0>>}}

\* The calls of take_turn the loop of _process_enemy_turns makes from entry
\* i on, over a set of possible games: the game each call is made in and
\* the index of the monster.
RECURSIVE LoopCalls(_, _, _, _)
LoopCalls(tiles_, gs, i, n) ==
    IF i > n THEN {}
    ELSE {[game |-> h, i |-> i] : h \in gs}
             \cup LoopCalls(tiles_, UNION {take_turn(tiles_, h, i) : h \in gs}, i + 1, n)

\* The calls of take_turn a turn-consuming call can make from game g.
TakeTurnCalls(tiles_, g) ==
    UNION {LoopCalls(tiles_, {p}, 1, Len(p.entities)) : p \in PlayerPhase(tiles_, g)}

\* The "wait" branch without the call of _process_enemy_turns.
handle_wait_skips_enemies(tiles_, g) == {effects_tick(add_message(g, "you_wait"))}

\* The "wait" branch of handle_event.
handle_wait(tiles_, g) == EnemyPhaseAndTick(tiles_, {add_message(g, "you_wait")})

(***************************************************************************)
(* Input events.  In PLAYING the input is the action handle_keys returned; *)
(* the other branches of handle_event read the key of the event.           *)
(***************************************************************************)
Dirs == {d \in {0 - 1, 0, 1} \X {0 - 1, 0, 1} : d # <<0, 0>>}
Keys == {"UP", "DOWN", "RETURN", "ESCAPE", "u", "e", "d", "i", "r", "w", "s",
         "other", "not_a_key"}
\* The keys each menu tells apart, one that it ignores, and an event that is
\* no key press.
InventoryKeys == {"UP", "DOWN", "RETURN", "ESCAPE", "u", "e", "d", "i", "other", "not_a_key"}
PauseKeys == {"UP", "DOWN", "RETURN", "ESCAPE", "w", "s", "other", "not_a_key"}

ActionInput(name, dx, dy) == [kind |-> "action", name |-> name, dx |-> dx, dy |-> dy]
KeyInput(key) == [kind |-> "key", name |-> key, dx |-> 0, dy |-> 0]
\* A method of the Player object called directly, outside handle_event.
\* dx holds the argument of the call when it is a number.
CallInput(name, arg) == [kind |-> "call", name |-> name, dx |-> arg, dy |-> 0]
\* Inside a menu the record keeps only that a key event was handled.
MenuInput == [kind |-> "menu", name |-> "key", dx |-> 0, dy |-> 0]
NoInput == [kind |-> "none", name |-> "none", dx |-> 0, dy |-> 0]

NoScreen == [selected_index |-> 0 - 1, mode |-> "NONE", action_index |-> 0]
NewScreen == [selected_index |-> 0, mode |-> "BROWSE", action_index |-> 0]

Returned(value, io) == [value |-> value, io |-> io]

\* The game is in the PLAYING branch of handle_event.
Playing == state = "playing" /\ ~game_over

\* The turn-consuming inputs are explored for MaxTurns turns.
TurnsLeft == turns < MaxTurns

\* Write a turn's result back to the game.
Commit(g) ==
    /\ player' = g.player
    /\ entities' = g.entities
    /\ ground_items' = g.ground_items
    /\ kills' = g.kills
    /\ game_over' = g.game_over
    /\ visible' = g.visible
    /\ explored' = g.explored
    /\ ai_steps' = g.ai_steps
    /\ msgs' = g.msgs
    /\ ticks' = g.ticks
    /\ turns' = turns + g.ticks

(***************************************************************************)
(* A new game (Game.__init__): the dungeon, the player on the spawn point, *)
(* the spawned zombies and items, the first field of view.                 *)
(***************************************************************************)
PlayerStart == <<2, 2>>

\* What _spawn_zombies can leave in entities: two zombies beside the player
\* and one behind the door, or one zombie beside the items and one behind
\* the door.
CrowdedPlan ==
    << spawn_zombie(1, 3, 2, "BRUTE"),
       spawn_zombie(2, 2, 1, "CRAWLER"),
       spawn_zombie(3, MapWidth - 2, 2, "FAST") >>
QuietPlan ==
    << spawn_zombie(1, 1, 3, "CRAWLER"),
       spawn_zombie(2, MapWidth - 2, 2, "FAST") >>
SpawnPlans == {CrowdedPlan, QuietPlan}

StartGroundItems ==
    (<<1, 2>> :> << create_item("bandage"), create_item("knife") >>)

NewGame(plan) ==
    recompute_fov(
        [player |-> NewPlayer(PlayerStart[1], PlayerStart[2]), entities |-> plan,
         ground_items |-> StartGroundItems, kills |-> 0, game_over |-> FALSE,
         visible |-> {}, explored |-> {}, ai_steps |-> <<>>,
         msgs |-> <<"welcome", "controls">>, ticks |-> 0],
        StartTiles)

(***************************************************************************)
(* Save file (engine/save_system.py).  The file of slot 0 is absent, not   *)
(* parsable, or holds the JSON object save_game wrote, from which keys may *)
(* since have been removed or values edited.                               *)
(***************************************************************************)
NoFile == [kind |-> "none", missing |-> "", data |-> <<>>]
CorruptFile == [kind |-> "corrupt", missing |-> "", data |-> <<>>]

\* serialize_monster
serialize_monster(m) ==
    [zombie_type |-> m.zombie_type, x |-> m.x, y |-> m.y, hp |-> m.hp, max_hp |-> m.max_hp]

\* serialize_item / deserialize_item: the dict holds every field of the
\* Item but tile_id (never set on an item); the fields an item takes from
\* its ITEMS entry travel under its name, stack_size on its own.
JsonNull == [name |-> "null", stack_size |-> 0]
serialize_item(item) == [name |-> item.id, stack_size |-> item.stack_size]
deserialize_item(data) == [id |-> data.name, stack_size |-> data.stack_size]

\* serialize_player; an empty slot is written as null.
serialize_player(p) ==
    [x |-> p.x, y |-> p.y, hp |-> p.hp, max_hp |-> p.max_hp, hunger |-> p.hunger,
     thirst |-> p.thirst, level |-> p.level, xp |-> p.xp,
     xp_to_next_level |-> p.xp_to_next_level,
     inventory |-> [i \in 1 .. Len(p.inventory) |-> serialize_item(p.inventory[i])],
     equipped_weapon |-> IF p.equipped_weapon # NoItem
                            THEN serialize_item(p.equipped_weapon) ELSE JsonNull,
     equipped_armor |-> IF p.equipped_armor # NoItem
                           THEN serialize_item(p.equipped_armor) ELSE JsonNull]

\* load_game without the two equipment assignments.
deserialize_player_without_equipment(d) ==
    [NewPlayer(d.x, d.y) EXCEPT
        !.hp = d.hp, !.max_hp = d.max_hp, !.hunger = d.hunger, !.thirst = d.thirst,
        !.level = d.level, !.xp = d.xp, !.xp_to_next_level = d.xp_to_next_level,
        !.inventory = [i \in 1 .. Len(d.inventory) |-> deserialize_item(d.inventory[i])]]

\* load_game's player: a new Player at the saved cell, then the saved
\* fields assigned one by one; a null slot keeps the constructor's None.
deserialize_player(d) ==
    [NewPlayer(d.x, d.y) EXCEPT
        !.hp = d.hp, !.max_hp = d.max_hp, !.hunger = d.hunger, !.thirst = d.thirst,
        !.level = d.level, !.xp = d.xp, !.xp_to_next_level = d.xp_to_next_level,
        !.inventory = [i \in 1 .. Len(d.inventory) |-> deserialize_item(d.inventory[i])],
        !.equipped_weapon = IF d.equipped_weapon # JsonNull
                                THEN deserialize_item(d.equipped_weapon) ELSE @,
        !.equipped_armor = IF d.equipped_armor # JsonNull
                               THEN deserialize_item(d.equipped_armor) ELSE @]

\* serialize_ground_items: one entry per item, key by key (the keys taken
\* here in column-then-row order), each key's items in list order.
RECURSIVE serialize_ground_items(_)
serialize_ground_items(gi) ==
    IF DOMAIN gi = {} THEN <<>>
    ELSE LET c == CHOOSE c \in DOMAIN gi :
                      \A e \in DOMAIN gi : c[1] < e[1] \/ (c[1] = e[1] /\ c[2] <= e[2])
         IN  [i \in 1 .. Len(gi[c]) |-> [x |-> c[1], y |-> c[2], item |-> serialize_item(gi[c][i])]]
                 \o serialize_ground_items([e \in DOMAIN gi \ {c} |-> gi[e]])

\* load_game's ground-item loop from entry k on.
RECURSIVE restore_ground_items(_, _, _)
restore_ground_items(entries, k, gi) ==
    IF k > Len(entries) THEN gi
    ELSE restore_ground_items(entries, k + 1,
                              add_ground_item(gi, entries[k].x, entries[k].y,
                                              deserialize_item(entries[k].item)))

\* The save_data object of save_game: serialize_player, the monsters,
\* serialize_ground_items, serialize_map (walkable and explored per cell), kills.
save_data(w) ==
    [player |-> serialize_player(w.player),
     monsters |-> [i \in 1 .. Len(w.entities) |-> serialize_monster(w.entities[i])],
     ground_items |-> serialize_ground_items(w.ground_items),
     walkable |-> {c \in Cells : TileWalkable(w.tiles[c])},
     explored |-> w.explored,
     kills |-> w.kills]

SavedFile(w) == [kind |-> "snapshot", missing |-> "", data |-> <<save_data(w)>>]

\* The game as load_game sees it.
World ==
    [tiles |-> tiles, visible |-> visible, explored |-> explored, player |-> player,
     entities |-> entities, ground_items |-> ground_items, kills |-> kills,
     game_over |-> game_over, state |-> state]

\* load_game: the statements run in order until one raises; what was
\* assigned before stays assigned.
load_game(w, file) ==
    IF file.kind # "snapshot" \/ file.missing \in {"player", "map"}
        THEN [ok |-> FALSE, world |-> w]
    ELSE
        LET d == file.data[1]
            n == Len(d.monsters)
            bad == {k \in 1 .. n : d.monsters[k].zombie_type \notin ZombieTypes}
            stop == IF bad = {} THEN n + 1 ELSE CHOOSE k \in bad : \A j \in bad : k <= j
            restored == [k \in 1 .. stop - 1 |->
                            [spawn_zombie(k, d.monsters[k].x, d.monsters[k].y,
                                          d.monsters[k].zombie_type)
                                EXCEPT !.hp = d.monsters[k].hp,
                                       !.max_hp = d.monsters[k].max_hp]]
            w1 == [w EXCEPT !.tiles = [c \in Cells |->
                                          IF c \in d.walkable THEN "floor" ELSE "wall"],
                            !.visible = {},
                            !.explored = d.explored,
                            !.player = deserialize_player(d.player),
                            !.entities = restored]
            w2 == [w1 EXCEPT !.ground_items = restore_ground_items(d.ground_items, 1, <<>>),
                             !.kills = d.kills]
            w3 == recompute_fov(w2, w2.tiles)
        IN  IF bad # {} THEN [ok |-> FALSE, world |-> w1]
            ELSE [ok |-> TRUE,
                  world |-> [w3 EXCEPT !.game_over = FALSE, !.state = "playing"]]

InitWith(plans) ==
    /\ \E plan \in plans :
           LET g == NewGame(plan)
           IN  /\ player = g.player
               /\ entities = g.entities
               /\ ground_items = g.ground_items
               /\ kills = g.kills
               /\ game_over = g.game_over
               /\ visible = g.visible
               /\ explored = g.explored
               /\ ai_steps = g.ai_steps
               /\ msgs = g.msgs
               /\ ticks = g.ticks
    /\ state = "playing"
    /\ tiles = StartTiles
    /\ inventory_screen = NoScreen
    /\ pause_selection = 0
    /\ savefile = NoFile
    /\ last_input = NoInput
    /\ turns = 0
    /\ ret = Returned("none", "none")

Init == InitWith(SpawnPlans)

(***************************************************************************)
(* Inventory and equipment (Player, entities/player.py).                   *)
(***************************************************************************)
\* Item.can_stack_with
can_stack_with(a, b) ==
    /\ ITEMS[a.id].stackable /\ ITEMS[b.id].stackable
    /\ a.id = b.id
    /\ a.stack_size + b.stack_size <= ITEMS[a.id].max_stack

\* add_to_inventory without the test of len(inventory) against the capacity.
add_to_inventory_unbounded(inv, item) ==
    LET fits == {i \in 1 .. Len(inv) : can_stack_with(inv[i], item)}
    IN  IF ITEMS[item.id].stackable /\ fits # {}
            THEN LET i == CHOOSE k \in fits : \A j \in fits : k <= j
                 IN  [ok |-> TRUE,
                      inventory |-> [inv EXCEPT ![i].stack_size = @ + item.stack_size]]
        ELSE [ok |-> TRUE, inventory |-> Append(inv, item)]

\* Player.add_to_inventory: [ok, inventory]
add_to_inventory(inv, item) ==
    LET fits == {i \in 1 .. Len(inv) : can_stack_with(inv[i], item)}
    IN  IF ITEMS[item.id].stackable /\ fits # {}
            THEN LET i == CHOOSE k \in fits : \A j \in fits : k <= j
                 IN  [ok |-> TRUE,
                      inventory |-> [inv EXCEPT ![i].stack_size = @ + item.stack_size]]
        ELSE IF Len(inv) >= max_inventory_size THEN [ok |-> FALSE, inventory |-> inv]
        ELSE [ok |-> TRUE, inventory |-> Append(inv, item)]

\* Player.use_item on inventory entry i: [ok, player]
use_item(p, i) ==
    LET item == p.inventory[i]
        def == ITEMS[item.id]
        hp1 == IF def.hp_restore > 0 THEN Min(p.hp + def.hp_restore, p.max_hp) ELSE p.hp
        hunger1 == IF def.hunger_restore > 0 THEN Min(100, p.hunger + def.hunger_restore)
                   ELSE p.hunger
        thirst1 == IF def.thirst_restore > 0 THEN Min(100, p.thirst + def.thirst_restore)
                   ELSE p.thirst
        p1 == [p EXCEPT !.hp = hp1, !.hunger = hunger1, !.thirst = thirst1]
        effect == hp1 - p.hp > 0 \/ hunger1 - p.hunger > 0 \/ thirst1 - p.thirst > 0
    IN  IF def.item_type # "CONSUMABLE" THEN [ok |-> FALSE, player |-> p]
        ELSE IF ~effect THEN [ok |-> FALSE, player |-> p1]
        ELSE IF def.stackable /\ item.stack_size > 1
            THEN [ok |-> TRUE, player |-> [p1 EXCEPT !.inventory[i].stack_size = @ - 1]]
        ELSE [ok |-> TRUE, player |-> [p1 EXCEPT !.inventory = ListRemove(@, item)]]

\* Player.equip_item on inventory entry i: [ok, player]
equip_item(p, i) ==
    LET item == p.inventory[i]
        slot == ITEMS[item.id].equip_slot
        inv1 == ListRemove(p.inventory, item)
        old_item == IF slot = "WEAPON" THEN p.equipped_weapon ELSE p.equipped_armor
        inv2 == IF old_item # NoItem THEN Append(inv1, old_item) ELSE inv1
    IN  IF slot = "NONE" THEN [ok |-> FALSE, player |-> p]
        ELSE IF slot = "WEAPON"
            THEN [ok |-> TRUE, player |-> [p EXCEPT !.equipped_weapon = item, !.inventory = inv2]]
        ELSE [ok |-> TRUE, player |-> [p EXCEPT !.equipped_armor = item, !.inventory = inv2]]

\* Player.unequip_item on a slot: [ok, player].  With a full inventory the
\* item is put back into its slot.
unequip_item(p, slot) ==
    LET item == CASE slot = "WEAPON" -> p.equipped_weapon
                  [] slot = "ARMOR" -> p.equipped_armor
                  [] OTHER -> NoItem
        p1 == CASE slot = "WEAPON" -> [p EXCEPT !.equipped_weapon = NoItem]
                [] slot = "ARMOR" -> [p EXCEPT !.equipped_armor = NoItem]
                [] OTHER -> p
    IN  IF item = NoItem THEN [ok |-> FALSE, player |-> p1]
        ELSE IF Len(p1.inventory) < max_inventory_size
            THEN [ok |-> TRUE, player |-> [p1 EXCEPT !.inventory = Append(@, item)]]
        ELSE IF slot = "WEAPON"
            THEN [ok |-> FALSE, player |-> [p1 EXCEPT !.equipped_weapon = item]]
        ELSE [ok |-> FALSE, player |-> [p1 EXCEPT !.equipped_armor = item]]

(***************************************************************************)
(* InventoryScreen (ui/inventory_screen.py): handle_input returns          *)
(* (should_close, result) and changes the player and the screen.           *)
(***************************************************************************)
ScreenResult(close, drop, p, scr) == [close |-> close, drop |-> drop, player |-> p, screen |-> scr]

\* "Adjust selection" after an entry left the inventory.
AdjustSelection(scr, inv) ==
    IF scr.selected_index >= Len(inv)
        THEN [scr EXCEPT !.selected_index = Max(0, Len(inv) - 1)]
        ELSE scr

Selectable(p, scr) == p.inventory # <<>> /\ scr.selected_index < Len(p.inventory)

try_use_item(p, scr) ==
    IF ~Selectable(p, scr) THEN ScreenResult(FALSE, "none", p, scr)
    ELSE LET u == use_item(p, scr.selected_index + 1)
         IN  IF u.ok THEN ScreenResult(FALSE, "none", u.player, AdjustSelection(scr, u.player.inventory))
             ELSE ScreenResult(FALSE, "none", u.player, scr)

try_equip_item(p, scr) ==
    IF ~Selectable(p, scr) THEN ScreenResult(FALSE, "none", p, scr)
    ELSE LET e == equip_item(p, scr.selected_index + 1)
         IN  IF e.ok THEN ScreenResult(FALSE, "none", e.player, AdjustSelection(scr, e.player.inventory))
             ELSE ScreenResult(FALSE, "none", e.player, scr)

\* _try_drop_item: the result "DROP:<name>" is the id of the dropped template.
try_drop_item(p, scr) ==
    IF ~Selectable(p, scr) THEN ScreenResult(FALSE, "none", p, scr)
    ELSE LET item == p.inventory[scr.selected_index + 1]
             p1 == [p EXCEPT !.inventory = ListRemove(@, item)]
         IN  ScreenResult(FALSE, item.id, p1, AdjustSelection(scr, p1.inventory))

handle_browse_input(p, scr, key) ==
    CASE key = "UP" ->
           ScreenResult(FALSE, "none", p,
               IF p.inventory # <<>>
                   THEN [scr EXCEPT !.selected_index = (@ - 1) % Len(p.inventory)] ELSE scr)
      [] key = "DOWN" ->
           ScreenResult(FALSE, "none", p,
               IF p.inventory # <<>>
                   THEN [scr EXCEPT !.selected_index = (@ + 1) % Len(p.inventory)] ELSE scr)
      [] key = "RETURN" ->
           ScreenResult(FALSE, "none", p,
               IF p.inventory # <<>>
                   THEN [scr EXCEPT !.mode = "SELECT_ACTION", !.action_index = 0] ELSE scr)
      [] key = "u" -> try_use_item(p, scr)
      [] key = "e" -> try_equip_item(p, scr)
      [] key = "d" -> try_drop_item(p, scr)
      [] key \in {"i", "ESCAPE"} -> ScreenResult(TRUE, "none", p, scr)
      [] OTHER -> ScreenResult(FALSE, "none", p, scr)

\* The action list of the submenu for an item.
ItemActions(item) ==
    (IF ITEMS[item.id].item_type = "CONSUMABLE" THEN <<"use">> ELSE <<>>)
      \o (IF ITEMS[item.id].equip_slot # "NONE" THEN <<"equip">> ELSE <<>>)
      \o <<"drop", "cancel">>

handle_action_input(p, scr, key) ==
    IF ~Selectable(p, scr) THEN ScreenResult(FALSE, "none", p, [scr EXCEPT !.mode = "BROWSE"])
    ELSE
        LET actions == ItemActions(p.inventory[scr.selected_index + 1])
            browse == [scr EXCEPT !.mode = "BROWSE"]
            Do(action) ==
                CASE action = "use" -> try_use_item(p, browse)
                  [] action = "equip" -> try_equip_item(p, browse)
                  [] action = "drop" -> try_drop_item(p, browse)
                  [] OTHER -> ScreenResult(FALSE, "none", p, browse)
        IN  CASE key = "UP" ->
                   ScreenResult(FALSE, "none", p,
                       [scr EXCEPT !.action_index = (@ - 1) % Len(actions)])
              [] key = "DOWN" ->
                   ScreenResult(FALSE, "none", p,
                       [scr EXCEPT !.action_index = (@ + 1) % Len(actions)])
              [] key = "RETURN" -> Do(actions[scr.action_index + 1])
              [] key = "u" -> Do("use")
              [] key = "e" -> Do("equip")
              [] key = "d" -> Do("drop")
              [] key = "ESCAPE" -> ScreenResult(FALSE, "none", p, browse)
              [] OTHER -> ScreenResult(FALSE, "none", p, scr)

\* InventoryScreen.handle_input
handle_input(p, scr, key) ==
    IF key = "not_a_key" THEN ScreenResult(FALSE, "none", p, scr)
    ELSE IF scr.mode = "BROWSE" THEN handle_browse_input(p, scr, key)
    ELSE handle_action_input(p, scr, key)

(***************************************************************************)
(* Game.handle_event, PLAYING branch.                                      *)
(***************************************************************************)
Move ==
    /\ Playing /\ TurnsLeft
    /\ \E d \in Dirs :
           /\ last_input' = ActionInput("move", d[1], d[2])
           /\ \E g \in handle_move(tiles, Turn, d[1], d[2]) : Commit(g)
    /\ ret' = Returned("none", "none")
    /\ UNCHANGED <<state, tiles, inventory_screen, pause_selection, savefile>>

Wait ==
    /\ Playing /\ TurnsLeft
    /\ last_input' = ActionInput("wait", 0, 0)
    /\ \E g \in handle_wait(tiles, Turn) : Commit(g)
    /\ ret' = Returned("none", "none")
    /\ UNCHANGED <<state, tiles, inventory_screen, pause_selection, savefile>>

\* The calls that run no enemy phase leave this trace.
NoTurn(m) ==
    /\ ai_steps' = <<>>
    /\ ticks' = 0
    /\ turns' = turns
    /\ msgs' = m

\* handle_keys returned None: nothing happens.
Ignored ==
    /\ Playing
    /\ last_input' = ActionInput("none", 0, 0)
    /\ NoTurn(<<>>)
    /\ ret' = Returned("none", "none")
    /\ UNCHANGED <<state, game_over, player, entities, ground_items, kills, tiles, visible,
                   explored, inventory_screen, pause_selection, savefile>>

Quit ==
    /\ Playing
    /\ last_input' = ActionInput("quit", 0, 0)
    /\ NoTurn(<<>>)
    /\ ret' = Returned("quit", "none")
    /\ UNCHANGED <<state, game_over, player, entities, ground_items, kills, tiles, visible,
                   explored, inventory_screen, pause_selection, savefile>>

\* The "inventory" branch followed by the enemy phase.
OpenInventory_takes_turn ==
    /\ Playing
    /\ last_input' = ActionInput("inventory", 0, 0)
    /\ state' = "inventory"
    /\ inventory_screen' = NewScreen
    /\ \E g \in EnemyPhaseAndTick(tiles, {Turn}) : Commit(g)
    /\ ret' = Returned("none", "none")
    /\ UNCHANGED <<tiles, pause_selection, savefile>>

OpenInventory ==
    /\ Playing
    /\ last_input' = ActionInput("inventory", 0, 0)
    /\ state' = "inventory"
    /\ inventory_screen' = NewScreen
    /\ NoTurn(<<>>)
    /\ ret' = Returned("none", "none")
    /\ UNCHANGED <<game_over, player, entities, ground_items, kills, tiles, visible,
                   explored, pause_selection, savefile>>

\* Game._handle_pickup
Pickup ==
    /\ Playing
    /\ last_input' = ActionInput("pickup", 0, 0)
    /\ LET items == get_ground_items(ground_items, player.x, player.y)
           a == add_to_inventory(player.inventory, items[1])
       IN  IF items = <<>>
               THEN /\ NoTurn(<<"nothing_here">>)
                    /\ UNCHANGED <<player, ground_items>>
           ELSE IF a.ok
               THEN /\ player' = [player EXCEPT !.inventory = a.inventory]
                    /\ ground_items' = remove_ground_item(ground_items, player.x, player.y, items[1])
                    /\ NoTurn(<<"picked_up">>)
           ELSE /\ NoTurn(<<"inventory_full">>)
                /\ UNCHANGED <<player, ground_items>>
    /\ ret' = Returned("none", "none")
    /\ UNCHANGED <<state, game_over, entities, kills, tiles, visible, explored,
                   inventory_screen, pause_selection, savefile>>

\* Player.unequip_item, which no branch of handle_event calls: a direct call
\* on the player of a running game.
EquipSlots == {"WEAPON", "ARMOR", "NONE"}
Unequip ==
    /\ Playing
    /\ last_input' = CallInput("unequip_item", 0)
    /\ \E slot \in EquipSlots :
           LET r == unequip_item(player, slot)
           IN  /\ player' = r.player
               /\ ret' = Returned("none", IF r.ok THEN "ok" ELSE "failed")
    /\ NoTurn(<<>>)
    /\ UNCHANGED <<state, game_over, entities, ground_items, kills, tiles, visible, explored,
                   inventory_screen, pause_selection, savefile>>

\* Player.gain_xp called with an award of any size (the game itself calls it
\* from the kill branch of _handle_move only).
XpAwards == {90, 250}
GainXp ==
    /\ Playing
    /\ player.level < MaxLevel
    /\ \E amount \in XpAwards :
           /\ last_input' = CallInput("gain_xp", amount)
           /\ player' = gain_xp(player, amount)
           /\ ret' = Returned(IF player.xp + amount >= player.xp_to_next_level
                                  THEN "true" ELSE "false", "none")
    /\ NoTurn(<<>>)
    /\ UNCHANGED <<state, game_over, entities, ground_items, kills, tiles, visible, explored,
                   inventory_screen, pause_selection, savefile>>

OpenPause ==
    /\ Playing
    /\ last_input' = ActionInput("pause", 0, 0)
    /\ state' = "paused"
    /\ pause_selection' = 0
    /\ NoTurn(<<>>)
    /\ ret' = Returned("none", "none")
    /\ UNCHANGED <<game_over, player, entities, ground_items, kills, tiles, visible,
                   explored, inventory_screen, savefile>>

\* save_game: True with the snapshot written; or an exception, raised before
\* the file is opened for writing or while it is being written, and False.
SaveOutcomes == {"ok", "failed_before_write", "failed_in_write"}
save_game(w, file, outcome) ==
    CASE outcome = "ok" -> [ok |-> TRUE, file |-> SavedFile(w)]
      [] outcome = "failed_before_write" -> [ok |-> FALSE, file |-> file]
      [] OTHER -> [ok |-> FALSE, file |-> CorruptFile]

\* Game._handle_save
handle_save(outcome) ==
    LET r == save_game(World, savefile, outcome)
    IN  /\ savefile' = r.file
        /\ NoTurn(IF r.ok THEN <<"game_saved">> ELSE <<"save_failed">>)
        /\ ret' = Returned("none", IF r.ok THEN "ok" ELSE "failed")

Save ==
    /\ Playing
    /\ last_input' = ActionInput("save", 0, 0)
    /\ \E outcome \in SaveOutcomes : handle_save(outcome)
    /\ UNCHANGED <<state, game_over, player, entities, ground_items, kills, tiles, visible,
                   explored, inventory_screen, pause_selection>>

\* Game._handle_load
Load ==
    /\ Playing
    /\ last_input' = ActionInput("load", 0, 0)
    /\ LET r == load_game(World, savefile)
           w == IF r.ok THEN recompute_fov(r.world, r.world.tiles) ELSE r.world
       IN  /\ tiles' = w.tiles
           /\ visible' = w.visible
           /\ explored' = w.explored
           /\ player' = w.player
           /\ entities' = w.entities
           /\ ground_items' = w.ground_items
           /\ kills' = w.kills
           /\ game_over' = w.game_over
           /\ state' = w.state
           /\ NoTurn(IF r.ok THEN <<"game_loaded">> ELSE <<"no_save_file">>)
           /\ ret' = Returned("none", IF r.ok THEN "ok" ELSE "failed")
    /\ UNCHANGED <<inventory_screen, pause_selection, savefile>>

(***************************************************************************)
(* Game._handle_inventory_event                                            *)
(***************************************************************************)
InventoryKey ==
    /\ state = "inventory"
    /\ \E key \in InventoryKeys :
        /\ last_input' = MenuInput
        /\ IF inventory_screen = NoScreen
               THEN /\ state' = "playing"
                    /\ NoTurn(<<>>)
                    /\ UNCHANGED <<player, ground_items, inventory_screen>>
           ELSE \E r \in {handle_input(player, inventory_screen, key)} :
                    /\ player' = r.player
                    /\ IF r.close
                           THEN /\ state' = "playing"
                                /\ inventory_screen' = NoScreen
                                /\ NoTurn(<<>>)
                                /\ UNCHANGED ground_items
                       ELSE /\ state' = state
                            /\ inventory_screen' = r.screen
                            /\ IF r.drop # "none"
                                   THEN /\ ground_items' =
                                             add_ground_item(ground_items, player.x, player.y,
                                                             create_item(r.drop))
                                        /\ NoTurn(<<"dropped">>)
                                   ELSE /\ NoTurn(<<>>)
                                        /\ UNCHANGED ground_items
    /\ ret' = Returned("none", "none")
    /\ UNCHANGED <<game_over, entities, kills, tiles, visible, explored,
                   pause_selection, savefile>>

(***************************************************************************)
(* Game._handle_pause_event                                                *)
(***************************************************************************)
PauseKey ==
    /\ state = "paused"
    /\ \E key \in PauseKeys :
        /\ last_input' = MenuInput
        /\ CASE key \in {"UP", "w"} ->
                  /\ pause_selection' = (pause_selection - 1) % 3
                  /\ NoTurn(<<>>)
                  /\ ret' = Returned("none", "none")
                  /\ UNCHANGED <<state, savefile>>
             [] key \in {"DOWN", "s"} ->
                  /\ pause_selection' = (pause_selection + 1) % 3
                  /\ NoTurn(<<>>)
                  /\ ret' = Returned("none", "none")
                  /\ UNCHANGED <<state, savefile>>
             [] key = "ESCAPE" ->
                  /\ state' = "playing"
                  /\ NoTurn(<<>>)
                  /\ ret' = Returned("none", "none")
                  /\ UNCHANGED <<pause_selection, savefile>>
             [] key = "RETURN" /\ pause_selection = 0 ->
                  /\ state' = "playing"
                  /\ NoTurn(<<>>)
                  /\ ret' = Returned("none", "none")
                  /\ UNCHANGED <<pause_selection, savefile>>
             [] key = "RETURN" /\ pause_selection = 1 ->
                  /\ \E outcome \in SaveOutcomes : handle_save(outcome)
                  /\ state' = "playing"
                  /\ UNCHANGED pause_selection
             [] key = "RETURN" /\ pause_selection = 2 ->
                  /\ NoTurn(<<>>)
                  /\ ret' = Returned("quit", "none")
                  /\ UNCHANGED <<state, pause_selection, savefile>>
             [] OTHER ->
                  /\ NoTurn(<<>>)
                  /\ ret' = Returned("none", "none")
                  /\ UNCHANGED <<state, pause_selection, savefile>>
    /\ UNCHANGED <<game_over, player, entities, ground_items, kills, tiles, visible,
                   explored, inventory_screen>>

(***************************************************************************)
(* Game.handle_event, game-over branch.                                    *)
(***************************************************************************)
GameOver == state = "playing" /\ game_over

\* The game-over branch letting the inventory key through to the dispatch.
GameOverKey_opens_inventory ==
    /\ GameOver
    /\ \E key \in Keys \ {"r"} :
        /\ last_input' = KeyInput(key)
        /\ ret' = Returned(IF key = "ESCAPE" THEN "quit" ELSE "none", "none")
        /\ state' = IF key = "i" THEN "inventory" ELSE state
        /\ inventory_screen' = IF key = "i" THEN NewScreen ELSE inventory_screen
    /\ NoTurn(<<>>)
    /\ UNCHANGED <<game_over, player, entities, ground_items, kills, tiles, visible,
                   explored, pause_selection, savefile>>

GameOverKey ==
    /\ GameOver
    /\ \E key \in Keys \ {"r"} :
        /\ last_input' = KeyInput(key)
        /\ ret' = Returned(IF key = "ESCAPE" THEN "quit" ELSE "none", "none")
    /\ NoTurn(<<>>)
    /\ UNCHANGED <<state, game_over, player, entities, ground_items, kills, tiles, visible,
                   explored, inventory_screen, pause_selection, savefile>>

\* R at game over with an __init__ that keeps the Player object.
Restart_keeps_player ==
    /\ GameOver
    /\ last_input' = KeyInput("r")
    /\ \E plan \in SpawnPlans :
           LET g == NewGame(plan)
           IN  /\ player' = player
               /\ entities' = g.entities
               /\ ground_items' = g.ground_items
               /\ kills' = g.kills
               /\ game_over' = g.game_over
               /\ visible' = g.visible
               /\ explored' = g.explored
               /\ msgs' = g.msgs
    /\ ai_steps' = <<>>
    /\ ticks' = 0
    /\ turns' = turns
    /\ state' = "playing"
    /\ tiles' = StartTiles
    /\ inventory_screen' = NoScreen
    /\ pause_selection' = 0
    /\ ret' = Returned("none", "none")
    /\ UNCHANGED savefile

\* R at game over: Game.__init__ runs again on the same object.
Restart ==
    /\ GameOver
    /\ last_input' = KeyInput("r")
    /\ \E plan \in SpawnPlans :
           LET g == NewGame(plan)
           IN  /\ player' = g.player
               /\ entities' = g.entities
               /\ ground_items' = g.ground_items
               /\ kills' = g.kills
               /\ game_over' = g.game_over
               /\ visible' = g.visible
               /\ explored' = g.explored
               /\ msgs' = g.msgs
    /\ ai_steps' = <<>>
    /\ ticks' = 0
    /\ turns' = turns
    /\ state' = "playing"
    /\ tiles' = StartTiles
    /\ inventory_screen' = NoScreen
    /\ pause_selection' = 0
    /\ ret' = Returned("none", "none")
    /\ UNCHANGED savefile

(***************************************************************************)
(* The save file can change between two calls, outside the program.        *)
(***************************************************************************)
ExternalEdit ==
    /\ savefile.kind = "snapshot" /\ savefile.missing = ""
    /\ \A k \in 1 .. Len(savefile.data[1].monsters) :
           savefile.data[1].monsters[k].zombie_type \in ZombieTypes
    /\ \/ savefile' = NoFile
       \/ savefile' = CorruptFile
       \/ savefile' = [savefile EXCEPT !.missing = "map"]
       \/ \E k \in 1 .. Len(savefile.data[1].monsters) :
              savefile' = [savefile EXCEPT !.data[1].monsters[k].zombie_type = "GHOST"]
    /\ UNCHANGED <<state, game_over, player, entities, ground_items, kills, tiles, visible,
                   explored, inventory_screen, pause_selection, last_input, ai_steps,
                   msgs, ticks, turns, ret>>

Next ==
    \/ Move
    \/ Wait
    \/ Ignored
    \/ Quit
    \/ OpenInventory
    \/ InventoryKey
    \/ Pickup
    \/ OpenPause
    \/ PauseKey
    \/ Save
    \/ Load
    \/ GameOverKey
    \/ Restart
    \/ ExternalEdit

Spec == Init /\ [][Next]_vars

(***************************************************************************)
(* Specifications over parts of the input alphabet.                        *)
(*   SpecTurn: the turn engine (moves, attacks, waits, game over).         *)
(*   SpecOver: the turn engine with the menus, up to and past game over.   *)
(*   SpecMenu: the inventory and the pause menu around moves and pickups.  *)
(*   SpecSave: saving, loading and a save file edited between calls.       *)
(***************************************************************************)
InitCrowded == InitWith({CrowdedPlan})
InitQuiet == InitWith({QuietPlan})

NextTurn == Move \/ Wait \/ Ignored \/ Quit \/ GameOverKey \/ Restart
SpecTurn == Init /\ [][NextTurn]_vars

NextOver ==
    Move \/ Wait \/ OpenInventory \/ InventoryKey \/ OpenPause \/ PauseKey
        \/ GameOverKey \/ Restart
SpecOver == InitCrowded /\ [][NextOver]_vars

NextMenu == Move \/ Pickup \/ OpenInventory \/ InventoryKey \/ OpenPause \/ PauseKey
SpecMenu == InitQuiet /\ [][NextMenu]_vars

NextSave == Move \/ Wait \/ Save \/ Load \/ ExternalEdit
SpecSave == InitQuiet /\ [][NextSave]_vars

\* SpecInv: the inventory at and near its capacity.  The game starts later
\* in a run: the player carries 20 entries and a knife in hand, stands
\* on a pile of items and has lost some hp.
PackFiller == [i \in 1 .. max_inventory_size - 2 |-> create_item("knife")]
PackTails ==
    { << create_item("bandage"), create_item("leather_jacket") >>,
      << [id |-> "bandage", stack_size |-> ITEMS["bandage"].max_stack],
         create_item("leather_jacket") >> }
PileUnderPlayer == << create_item("bandage"), create_item("knife") >>

InitInv ==
    /\ \E tail \in PackTails :
           LET g == NewGame(QuietPlan)
           IN  /\ player = [g.player EXCEPT !.inventory = PackFiller \o tail,
                                            !.equipped_weapon = create_item("knife"),
                                            !.hp = @ - 12]
               /\ entities = g.entities
               /\ kills = g.kills
               /\ game_over = g.game_over
               /\ visible = g.visible
               /\ explored = g.explored
    /\ ground_items = (PlayerStart :> PileUnderPlayer)
    /\ ai_steps = <<>>
    /\ msgs = <<>>
    /\ ticks = 0
    /\ state = "playing"
    /\ tiles = StartTiles
    /\ inventory_screen = NoScreen
    /\ pause_selection = 0
    /\ savefile = NoFile
    /\ last_input = NoInput
    /\ turns = 0
    /\ ret = Returned("none", "none")

PileSmall == Len(get_ground_items(ground_items, player.x, player.y)) < MaxPile

\* The inventory screen is explored with the selection on the first entry.
FirstEntrySelected == inventory_screen.selected_index <= 0

NextInv ==
    Pickup \/ Unequip \/ OpenInventory \/ (PileSmall /\ InventoryKey /\ FirstEntrySelected')
SpecInv == InitInv /\ [][NextInv]_vars

\* SpecXp: XP awards of any size between the moves and attacks of a game.
NextXp == Move \/ Wait \/ GainXp
SpecXp == InitCrowded /\ [][NextXp]_vars

\* SpecChase: moves and waits in generated dungeons, with zombies
\* placed so that the chase meets its cases.
\*   FallbackPlan (arena): a skeleton and a brute beside the player stand on
\*     the diagonal and the horizontal step of a zombie; a FAST zombie behind
\*     them.
\*   FlankPlan (arena): a CRAWLER and a ZOMBIE on opposite sides of the
\*     player, who wears a kevlar vest (defense 3, so attacks can be blocked).
\*   HiddenPlan (chambers): a zombie out of sight in the far chamber and a
\*     FAST zombie in sight, three cells down the tunnel row.
\*   LinePlan (arena): a skeleton and a crawler beside the player, behind
\*     them a zombie in the player's row and one in the corner, all of
\*     whose steps are occupied.
\*   TunnelPlan (chambers, the player starting in the left one): the game
\*     after a first wait; the zombie spawned in the right chamber has come
\*     one step into the tunnel.
\*   SprintPlan (arena): a FAST zombie alone, two cells from the player in
\*     the player's row.
FallbackPlan ==
    << spawn_zombie(1, 1, 1, "ZOMBIE"),
       spawn_zombie(2, 2, 2, "SKELETON"),
       spawn_zombie(3, 2, 1, "BRUTE"),
       spawn_zombie(4, 1, 3, "FAST") >>
FlankPlan ==
    << spawn_zombie(1, 2, 2, "CRAWLER"),
       spawn_zombie(2, 4, 2, "ZOMBIE") >>
HiddenPlan ==
    << spawn_zombie(1, 1, 1, "ZOMBIE"),
       spawn_zombie(2, 2, 2, "FAST") >>
LinePlan ==
    << spawn_zombie(1, 1, 1, "ZOMBIE"),
       spawn_zombie(2, 1, 2, "ZOMBIE"),
       spawn_zombie(3, 2, 2, "SKELETON"),
       spawn_zombie(4, 2, 1, "CRAWLER") >>
TunnelPlan ==
    << spawn_zombie(1, 4, 2, "ZOMBIE") >>
SprintPlan ==
    << spawn_zombie(1, 1, 2, "FAST") >>
ChaseGames ==
    { [dungeon |-> ArenaDungeon, plan |-> FallbackPlan, armor |-> NoItem],
      [dungeon |-> ArenaDungeon, plan |-> LinePlan, armor |-> NoItem],
      [dungeon |-> ArenaDungeon, plan |-> FlankPlan, armor |-> create_item("kevlar_vest")],
      [dungeon |-> ChamberDungeon, plan |-> HiddenPlan, armor |-> NoItem],
      [dungeon |-> LeftChamberDungeon, plan |-> TunnelPlan, armor |-> NoItem],
      [dungeon |-> ArenaDungeon, plan |-> SprintPlan, armor |-> NoItem] }

InitChase ==
    /\ \E c \in ChaseGames :
           LET g == recompute_fov(
                        [player |-> [NewPlayer(c.dungeon.start[1], c.dungeon.start[2])
                                        EXCEPT !.equipped_armor = c.armor],
                         entities |-> c.plan, ground_items |-> <<>>, kills |-> 0,
                         game_over |-> FALSE, visible |-> {}, explored |-> {},
                         ai_steps |-> <<>>, msgs |-> <<"welcome", "controls">>,
                         ticks |-> 0],
                        c.dungeon.tiles)
           IN  /\ tiles = c.dungeon.tiles
               /\ player = g.player
               /\ entities = g.entities
               /\ ground_items = g.ground_items
               /\ kills = g.kills
               /\ game_over = g.game_over
               /\ visible = g.visible
               /\ explored = g.explored
               /\ ai_steps = g.ai_steps
               /\ msgs = g.msgs
               /\ ticks = g.ticks
    /\ state = "playing"
    /\ inventory_screen = NoScreen
    /\ pause_selection = 0
    /\ savefile = NoFile
    /\ last_input = NoInput
    /\ turns = 0
    /\ ret = Returned("none", "none")

NextChase == Move \/ Wait
SpecChase == InitChase /\ [][NextChase]_vars

(***************************************************************************)
(* SpecCombat: the combat resolver called directly on a pair of            *)
(* combatants, the player standing beside one monster on the arena.  The   *)
(* player is a character of any stats that character creation allows, in   *)
(* any equipment with the extreme combat stats of the item table; the      *)
(* player record carries its PlayerStats in the field stats.               *)
(***************************************************************************)
MAX_STAT == 10
STARTING_POINTS == 25

\* The PlayerStats that character creation can return: every stat in
\* MIN_STAT .. MAX_STAT, at most STARTING_POINTS points in all.  The
\* extreme values of the stats combat reads, and the character of the model.
CharacterStats ==
    {st \in [strength : {MIN_STAT, MAX_STAT}, agility : {MIN_STAT, MAX_STAT},
             vitality : {vitality}, endurance : {MIN_STAT, MAX_STAT},
             perception : {MIN_STAT, MAX_STAT}] :
        st.strength + st.agility + st.vitality + st.endurance + st.perception
            <= STARTING_POINTS}
        \cup {[strength |-> strength, agility |-> agility, vitality |-> vitality,
                endurance |-> endurance, perception |-> perception]}

\* The stats of an equipment slot: those of the item in it, none when empty.
Gear(item) ==
    IF item = NoItem THEN [damage |-> 0, defense |-> 0, accuracy |-> 0, crit_bonus |-> 0]
    ELSE ITEMS[item.id]

\* How the resolver sees a player that carries its stats: get_total_accuracy,
\* get_total_crit_bonus, get_total_attack, get_total_defense.
CharacterAttacker(p) ==
    [attack_bonus |-> p.stats.perception * 2 + Gear(p.equipped_weapon).accuracy
                        + Gear(p.equipped_armor).accuracy,
     crit_bonus |-> ((5 + p.stats.agility) - 5) + Gear(p.equipped_weapon).crit_bonus
                        + Gear(p.equipped_armor).crit_bonus,
     attack_power |-> (2 + p.stats.strength) + Gear(p.equipped_weapon).damage]
CharacterDefender(p) ==
    [dodge_penalty |-> (p.stats.endurance \div 2 + Gear(p.equipped_armor).defense) * 3,
     defense |-> p.stats.endurance \div 2 + Gear(p.equipped_armor).defense]

\* Combat.perform_attack of entity a on entity d with outcome o: d afterwards.
perform_attack(tiles_, ents, a, d, o) ==
    LET pos == IF o.knockback THEN apply_knockback(tiles_, ents, a.x, a.y, d.x, d.y)
               ELSE <<d.x, d.y>>
    IN  [d EXCEPT !.hp = @ - o.damage, !.x = pos[1], !.y = pos[2]]

\* The draws of one attack explored: the hit roll at both ends of 1 .. 100
\* and on both sides of the hit chance, the crit roll and the block roll on
\* both sides of their chances, every variance.
DuelRolls(att, def) ==
    [hit : {1, calculate_hit_chance(att, def), calculate_hit_chance(att, def) + 1, 100},
     crit : {calculate_crit_chance(att), calculate_crit_chance(att) + 1},
     block : {Max(1, def.defense * 5), def.defense * 5 + 1},
     variance : (0 - 1) .. 2]

\* Number of random.randint(1, 100) calls roll_attack makes.
RollsDrawn(att, def, r) ==
    IF r.hit > calculate_hit_chance(att, def) THEN 1
    ELSE IF r.crit <= calculate_crit_chance(att) THEN 2
    ELSE IF def.defense >= 3 THEN 3
    ELSE 2

DuelWeapons == {NoItem, create_item("knife"), create_item("fire_axe")}
DuelArmors == {NoItem, create_item("kevlar_vest"), create_item("riot_gear")}

InitCombat ==
    /\ \E st \in CharacterStats, weapon \in DuelWeapons, armor \in DuelArmors,
          zt \in ZombieTypes :
           LET g == recompute_fov(
                        [player |-> [stats |-> st]
                                      @@ [NewPlayer(ArenaDungeon.start[1], ArenaDungeon.start[2])
                                             EXCEPT !.equipped_weapon = weapon,
                                                    !.equipped_armor = armor],
                         entities |-> << spawn_zombie(1, ArenaDungeon.start[1] - 1,
                                                      ArenaDungeon.start[2], zt) >>,
                         visible |-> {}, explored |-> {}],
                        ArenaDungeon.tiles)
           IN  /\ player = g.player
               /\ entities = g.entities
               /\ visible = g.visible
               /\ explored = g.explored
    /\ tiles = ArenaDungeon.tiles
    /\ ground_items = <<>>
    /\ kills = 0
    /\ game_over = FALSE
    /\ ai_steps = <<>>
    /\ msgs = <<"welcome", "controls">>
    /\ ticks = 0
    /\ state = "playing"
    /\ inventory_screen = NoScreen
    /\ pause_selection = 0
    /\ savefile = NoFile
    /\ last_input = NoInput
    /\ turns = 0
    /\ ret = Returned("none", "none")

\* The two ways round: the player attacks the monster, the monster the player.
Sides == {"player", "monster"}
AttackerOf(side) ==
    IF side = "player" THEN CharacterAttacker(player) ELSE MonsterAttacker(entities[1])
DefenderOf(side) ==
    IF side = "player" THEN MonsterDefender(entities[1]) ELSE CharacterDefender(player)

\* Each game is given one call of the resolver.
Uncalled == last_input.kind = "none"

\* Combat.calculate_hit_chance(attacker, defender)
CalcHitChance ==
    /\ Playing /\ Uncalled
    /\ \E side \in Sides :
           /\ last_input' = CallInput("calculate_hit_chance", [attacker |-> side])
           /\ ret' = Returned(calculate_hit_chance(AttackerOf(side), DefenderOf(side)), "none")
    /\ NoTurn(<<>>)
    /\ UNCHANGED <<state, game_over, player, entities, ground_items, kills, tiles, visible,
                   explored, inventory_screen, pause_selection, savefile>>

\* Combat.calculate_damage(attacker, defender, is_critical)
CalcDamage ==
    /\ Playing /\ Uncalled
    /\ \E side \in Sides, is_critical \in BOOLEAN, variance \in (0 - 1) .. 2 :
           /\ last_input' = CallInput("calculate_damage",
                                      [attacker |-> side, is_critical |-> is_critical,
                                       variance |-> variance])
           /\ ret' = Returned(calculate_damage(AttackerOf(side), DefenderOf(side),
                                               is_critical, variance), "none")
    /\ NoTurn(<<>>)
    /\ UNCHANGED <<state, game_over, player, entities, ground_items, kills, tiles, visible,
                   explored, inventory_screen, pause_selection, savefile>>

\* Combat.perform_attack(attacker, defender, game)
Duel ==
    /\ Playing /\ Uncalled
    /\ \E side \in Sides :
           \E r \in DuelRolls(AttackerOf(side), DefenderOf(side)) :
               LET o == AttackOutcome(AttackerOf(side), DefenderOf(side), r)
               IN  /\ last_input' = CallInput("perform_attack", [attacker |-> side, rolls |-> r])
                   /\ ret' = Returned([result |-> o.result, damage |-> o.damage,
                                       draws |-> RollsDrawn(AttackerOf(side),
                                                            DefenderOf(side), r)], "none")
                   /\ IF side = "player"
                          THEN /\ entities' = << perform_attack(tiles, entities, player,
                                                                entities[1], o) >>
                               /\ player' = player
                          ELSE /\ player' = perform_attack(tiles, entities, entities[1],
                                                           player, o)
                               /\ entities' = entities
    /\ NoTurn(<<>>)
    /\ UNCHANGED <<state, game_over, ground_items, kills, tiles, visible, explored,
                   inventory_screen, pause_selection, savefile>>

NextCombat == CalcHitChance \/ CalcDamage \/ Duel
SpecCombat == InitCombat /\ [][NextCombat]_vars

(***************************************************************************)
(* generate_dungeon called on its own (map/procgen.py): the candidate      *)
(* rooms its random draws give, in loop order, are the inputs; max_rooms   *)
(* is the number of candidates.                                            *)
(***************************************************************************)
\* Largest max_rooms of a call.
MaxRooms == 3

\* The rooms randint can give with sides in lo .. hi.
DrawsOfSides(lo, hi) ==
    {RectangularRoom(x, y, w, h) :
        <<x, y, w, h>> \in
            {q \in (0 .. MapWidth) \X (0 .. MapHeight) \X (lo .. hi) \X (lo .. hi) :
                q[1] <= MapWidth - q[3] - 1 /\ q[2] <= MapHeight - q[4] - 1}}

\* Sides from 1 (room_min_size = 1) up to what fits, and the smallest rooms
\* of RoomDraws (room_max_size = room_min_size) drawn with y = 0.
AnyDraws == DrawsOfSides(1, Max(MapWidth, MapHeight))
SmallDraws == {r \in DrawsOfSides(room_min_size, room_min_size) : r.y1 = 0}

RECURSIVE Lists(_, _)
Lists(S, n) ==
    IF n = 0 THEN {<<>>} ELSE {Append(l, a) : l \in Lists(S, n - 1), a \in S}

\* The candidate sequences of the calls: none (max_rooms = 0), one room of
\* any size, a room of any size and a room of RoomDraws, and from three
\* candidates on the smallest rooms along the top edge.
DrawLists ==
    {<<>>} \cup {<<a>> : a \in AnyDraws}
           \cup {<<a, b>> : a \in AnyDraws, b \in RoomDraws}
           \cup UNION {Lists(SmallDraws, n) : n \in 3 .. MaxRooms}

\* Before the call: GameMap.__init__ fills the grid with wall; there is no
\* player yet (Game.__init__ creates it after the call, at the point
\* returned), shown as a player off the grid.
InitGen ==
    /\ tiles = [c \in Cells |-> "wall"]
    /\ player = NewPlayer(0 - 1, 0 - 1)
    /\ entities = <<>>
    /\ visible = {}
    /\ explored = {}
    /\ ground_items = <<>>
    /\ kills = 0
    /\ game_over = FALSE
    /\ ai_steps = <<>>
    /\ msgs = <<>>
    /\ ticks = 0
    /\ state = "playing"
    /\ inventory_screen = NoScreen
    /\ pause_selection = 0
    /\ savefile = NoFile
    /\ last_input = NoInput
    /\ turns = 0
    /\ ret = Returned("none", "none")

\* generate_dungeon(map_width, map_height, max_rooms, room_min_size, room_max_size)
GenerateDungeon ==
    /\ Uncalled
    /\ \E draws \in DrawLists, horizontal_first \in BOOLEAN :
           LET d == generate_dungeon(draws, horizontal_first)
           IN  /\ last_input' = CallInput("generate_dungeon",
                                          [draws |-> draws,
                                           horizontal_first |-> horizontal_first])
               /\ IF d.rooms = <<>>
                      THEN /\ ret' = Returned("none", "IndexError")
                           /\ tiles' = tiles
                      ELSE /\ ret' = Returned([rooms |-> d.rooms, start |-> d.start], "none")
                           /\ tiles' = d.tiles
    /\ NoTurn(<<>>)
    /\ UNCHANGED <<state, game_over, player, entities, ground_items, kills, visible,
                   explored, inventory_screen, pause_selection, savefile>>

NextGen == GenerateDungeon
SpecGen == InitGen /\ [][NextGen]_vars

(***************************************************************************)
(* generate_dungeon under a seeded generator: every number comes from the  *)
(* module-level `random`, whose stream is fixed by its seed.  The stream   *)
(* is a linear congruential one standing for the library's generator; a    *)
(* draw advances the generator state and scales it into the range asked.   *)
(***************************************************************************)
\* Seeds tried, and calls made in one run of the program.
MaxSeed == 199
MaxRuns == 2
Seeds == 0 .. MaxSeed

NextRandom(s) == (37 * s + 11) % 256
\* random.randint(a, b) and random.random() < 0.5 on generator state s.
randint(s, a, b) == a + (s * (b - a + 1)) \div 256
BelowHalf(s) == s < 128

\* The room loop from candidate k on, the generator in state s: four
\* randint draws per candidate, and one random() draw by tunnel_between
\* when the candidate is kept and a room was kept before it.
RECURSIVE DigSeeded(_, _, _, _)
DigSeeded(s, k, tiles_, rooms) ==
    IF k > MaxRooms THEN [tiles |-> tiles_, rooms |-> rooms]
    ELSE LET s1 == NextRandom(s)
             room_width == randint(s1, room_min_size, room_min_size + 1)
             s2 == NextRandom(s1)
             room_height == randint(s2, room_min_size, room_min_size + 1)
             s3 == NextRandom(s2)
             x == randint(s3, 0, MapWidth - room_width - 1)
             s4 == NextRandom(s3)
             y == randint(s4, 0, MapHeight - room_height - 1)
             new_room == RectangularRoom(x, y, room_width, room_height)
             tunnel == rooms # <<>> /\ ~\E i \in 1 .. Len(rooms) : intersects(new_room, rooms[i])
             s5 == IF tunnel THEN NextRandom(s4) ELSE s4
             dug == DigRooms(<<new_room>>, BelowHalf(s5), 1, tiles_, rooms)
         IN  DigSeeded(s5, k + 1, dug.tiles, dug.rooms)

\* Before the first call of a run: the grid of GameMap.__init__, no call
\* made and no seed set.
InitSeed ==
    /\ tiles = [c \in Cells |-> "wall"]
    /\ player = NewPlayer(0 - 1, 0 - 1)
    /\ entities = <<>>
    /\ visible = {}
    /\ explored = {}
    /\ ground_items = <<>>
    /\ kills = 0
    /\ game_over = FALSE
    /\ ai_steps = <<>>
    /\ msgs = <<>>
    /\ ticks = 0
    /\ state = "playing"
    /\ inventory_screen = NoScreen
    /\ pause_selection = 0
    /\ savefile = NoFile
    /\ last_input = CallInput("none", [seed |-> 0 - 1, run |-> 0])
    /\ turns = 0
    /\ ret = Returned([rooms |-> <<>>, start |-> <<0 - 1, 0 - 1>>], "none")

\* generate_dungeon whose room list outlives the call: the rooms of the
\* call before are still in it.
GenerateSeeded_rooms_outlive_call ==
    /\ last_input.dx.run < MaxRuns
    /\ \E seed \in Seeds :
           LET dug == DigSeeded(seed, 1, [c \in Cells |-> "wall"], ret.value.rooms)
           IN  /\ last_input' = CallInput("generate_dungeon",
                                          [seed |-> seed, run |-> last_input.dx.run + 1])
               /\ tiles' = place_doors(dug.tiles, AllDoorTries(dug.rooms, 1), 1)
               /\ ret' = Returned([rooms |-> dug.rooms, start |-> center(dug.rooms[1])], "none")
    /\ NoTurn(<<>>)
    /\ UNCHANGED <<state, game_over, player, entities, ground_items, kills, visible,
                   explored, inventory_screen, pause_selection, savefile>>

\* random.seed(seed); generate_dungeon(map_width, map_height, MaxRooms,
\* room_min_size, room_min_size + 1)
GenerateSeeded ==
    /\ last_input.dx.run < MaxRuns
    /\ \E seed \in Seeds :
           LET dug == DigSeeded(seed, 1, [c \in Cells |-> "wall"], <<>>)
           IN  /\ last_input' = CallInput("generate_dungeon",
                                          [seed |-> seed, run |-> last_input.dx.run + 1])
               /\ tiles' = place_doors(dug.tiles, AllDoorTries(dug.rooms, 1), 1)
               /\ ret' = Returned([rooms |-> dug.rooms, start |-> center(dug.rooms[1])], "none")
    /\ NoTurn(<<>>)
    /\ UNCHANGED <<state, game_over, player, entities, ground_items, kills, visible,
                   explored, inventory_screen, pause_selection, savefile>>

NextSeed == GenerateSeeded
SpecSeed == InitSeed /\ [][NextSeed]_vars

(***************************************************************************)
(* Items on the ground: a game with items spawned on the floor, in which   *)
(* the player steps, attacks and kills (the monster may drop an item),     *)
(* picks up, drops from the inventory screen, saves and loads.             *)
(***************************************************************************)
NextGround == Move \/ Pickup \/ OpenInventory \/ InventoryKey \/ Save \/ Load
SpecGround == InitQuiet /\ [][NextGround]_vars

(***************************************************************************)
(* Save and load in a game with a brute beside the player, whose hits push *)
(* the player back: steps and attacks, pickups, the inventory screen,      *)
(* saves and loads.                                                        *)
(***************************************************************************)
BrutePlan == << spawn_zombie(1, 3, 2, "BRUTE") >>
InitBrute == InitWith({BrutePlan})
NextRoundTrip ==
    Move \/ Pickup \/ OpenInventory \/ (InventoryKey /\ FirstEntrySelected') \/ Save \/ Load
SpecRoundTrip == InitBrute /\ [][NextRoundTrip]_vars

(***************************************************************************)
(* Equipment from the inventory screen.  The items carry the object they   *)
(* are (obj): the player has picked up two leather jackets and a knife and *)
(* holds an axe.  Item.__eq__ does not look at obj.                       *)
(***************************************************************************)
ItemObject(id, n) == [id |-> id, stack_size |-> 1, obj |-> n]
EquipPack == << ItemObject("leather_jacket", 1), ItemObject("leather_jacket", 2),
                ItemObject("knife", 3) >>
InitEquip ==
    /\ LET g == NewGame(QuietPlan)
       IN  /\ player = [g.player EXCEPT !.inventory = EquipPack,
                                        !.equipped_weapon = ItemObject("fire_axe", 4)]
           /\ entities = g.entities
           /\ kills = g.kills
           /\ game_over = g.game_over
           /\ visible = g.visible
           /\ explored = g.explored
    /\ ground_items = <<>>
    /\ ai_steps = <<>>
    /\ msgs = <<>>
    /\ ticks = 0
    /\ state = "playing"
    /\ tiles = StartTiles
    /\ inventory_screen = NoScreen
    /\ pause_selection = 0
    /\ savefile = NoFile
    /\ last_input = NoInput
    /\ turns = 0
    /\ ret = Returned("none", "none")
NextEquip == OpenInventory \/ InventoryKey \/ Unequip
SpecEquip == InitEquip /\ [][NextEquip]_vars

(***************************************************************************)
(* Kills late in a run.  The game is entered after any number of kills     *)
(* made without taking a hit (every kill is the kill branch of             *)
(* _handle_move: one more kill and gain_xp of 10 + max_hp), with a wounded *)
(* crawler or brute (the least and the largest award) beside the player,   *)
(* and goes on with moves and attacks.                                     *)
(***************************************************************************)
KillAwards == {10 + spawn_zombie(1, 0, 0, t).max_hp : t \in ZombieTypes}
RECURSIVE KillsFrom(_)
KillsFrom(S) ==
    LET T == S \cup {[player |-> gain_xp(v.player, a), kills |-> v.kills + 1] :
                        v \in {w \in S : w.player.level < MaxLevel}, a \in KillAwards}
    IN  IF T = S THEN S ELSE KillsFrom(T)
Veterans == KillsFrom({[player |-> NewPlayer(PlayerStart[1], PlayerStart[2]), kills |-> 0]})
InitKills ==
    /\ \E v \in Veterans, t \in {"CRAWLER", "BRUTE"} :
           LET g == NewGame(<< [spawn_zombie(1, 3, 2, t) EXCEPT !.hp = 1] >>)
           IN  /\ player = v.player
               /\ kills = v.kills
               /\ entities = g.entities
               /\ game_over = g.game_over
               /\ visible = g.visible
               /\ explored = g.explored
    /\ ground_items = <<>>
    /\ ai_steps = <<>>
    /\ msgs = <<>>
    /\ ticks = 0
    /\ state = "playing"
    /\ tiles = StartTiles
    /\ inventory_screen = NoScreen
    /\ pause_selection = 0
    /\ savefile = NoFile
    /\ last_input = NoInput
    /\ turns = 0
    /\ ret = Returned("none", "none")
NextKills == Move
SpecKills == InitKills /\ [][NextKills]_vars

(***************************************************************************)
(* The game driven by key events.  handle_event passes every event of the  *)
(* PLAYING branch through handle_keys (engine/input_handler.py) and        *)
(* dispatches on the action it returns.                                    *)
(***************************************************************************)
\* The keys of move_keys with their directions.
move_keys ==
    [k \in {"UP", "w", "KP_8", "DOWN", "s", "KP_2", "LEFT", "a", "KP_4", "RIGHT", "d", "KP_6",
             "KP_7", "q", "KP_9", "e", "KP_1", "z", "KP_3", "c"} |->
        CASE k \in {"UP", "w", "KP_8"} -> <<0, 0 - 1>>
          [] k \in {"DOWN", "s", "KP_2"} -> <<0, 1>>
          [] k \in {"LEFT", "a", "KP_4"} -> <<0 - 1, 0>>
          [] k \in {"RIGHT", "d", "KP_6"} -> <<1, 0>>
          [] k \in {"KP_7", "q"} -> <<0 - 1, 0 - 1>>
          [] k \in {"KP_9", "e"} -> <<1, 0 - 1>>
          [] k \in {"KP_1", "z"} -> <<0 - 1, 1>>
          [] k \in {"KP_3", "c"} -> <<1, 1>>]

\* The events fed to the game: the keys handle_keys knows, the keys the
\* dispatcher of handle_event has branches for (i, g, p, F5, F9), r, any
\* other key, and an event that is no key press.
KeyEvents ==
    DOMAIN move_keys \cup {"PERIOD", "KP_5", "ESCAPE", "i", "g", "p", "F5", "F9", "r",
                           "other", "not_a_key"}

\* handle_keys with a branch that maps the key i to "inventory".
handle_keys_with_inventory_key(event) ==
    IF event = "not_a_key" THEN ActionInput("none", 0, 0)
    ELSE IF event \in DOMAIN move_keys
        THEN ActionInput("move", move_keys[event][1], move_keys[event][2])
    ELSE IF event \in {"PERIOD", "KP_5"} THEN ActionInput("wait", 0, 0)
    ELSE IF event = "ESCAPE" THEN ActionInput("quit", 0, 0)
    ELSE IF event = "i" THEN ActionInput("inventory", 0, 0)
    ELSE ActionInput("none", 0, 0)

\* handle_keys: the action of an event, None being the action "none".
handle_keys(event) ==
    IF event = "not_a_key" THEN ActionInput("none", 0, 0)
    ELSE IF event \in DOMAIN move_keys
        THEN ActionInput("move", move_keys[event][1], move_keys[event][2])
    ELSE IF event \in {"PERIOD", "KP_5"} THEN ActionInput("wait", 0, 0)
    ELSE IF event = "ESCAPE" THEN ActionInput("quit", 0, 0)
    ELSE ActionInput("none", 0, 0)

\* handle_event in the PLAYING branch: the branch taken is the one of the
\* action handle_keys returns.
HandleKeyEvent ==
    \E event \in KeyEvents :
        /\ last_input' = handle_keys(event)
        /\ (Move \/ Wait \/ Ignored \/ Quit \/ OpenInventory \/ Pickup \/ OpenPause
               \/ Save \/ Load)

NextKeys == HandleKeyEvent \/ GameOverKey \/ Restart
SpecKeys == Init /\ [][NextKeys]_vars

(***************************************************************************)
(* Dropping from the inventory screen: the player carries a stack of three *)
(* bandages, a knife and a jacket, at full health (a bandage is not used   *)
(* up), and drops and picks up.                                            *)
(***************************************************************************)
DropPack == << [id |-> "bandage", stack_size |-> 3], create_item("knife"),
               create_item("leather_jacket") >>
InitDrop ==
    /\ LET g == NewGame(QuietPlan)
       IN  /\ player = [g.player EXCEPT !.inventory = DropPack]
           /\ entities = g.entities
           /\ kills = g.kills
           /\ game_over = g.game_over
           /\ visible = g.visible
           /\ explored = g.explored
    /\ ground_items = <<>>
    /\ ai_steps = <<>>
    /\ msgs = <<>>
    /\ ticks = 0
    /\ state = "playing"
    /\ tiles = StartTiles
    /\ inventory_screen = NoScreen
    /\ pause_selection = 0
    /\ savefile = NoFile
    /\ last_input = NoInput
    /\ turns = 0
    /\ ret = Returned("none", "none")
NextDrop == OpenInventory \/ InventoryKey \/ Pickup
SpecDrop == InitDrop /\ [][NextDrop]_vars

(***************************************************************************)
(* Properties.                                                             *)
(***************************************************************************)
Ids(ents) == [i \in 1 .. Len(ents) |-> ents[i].id]
Range(seq) == {seq[i] : i \in 1 .. Len(seq)}

\* The call being made is a move by (dx, dy) from the current state.
IsMove == last_input'.kind = "action" /\ last_input'.name = "move"
MoveTarget ==
    get_blocking_entity_at(entities, player.x + last_input'.dx, player.y + last_input'.dy)
MoveWalkable == walkable(tiles, player.x + last_input'.dx, player.y + last_input'.dy)

\* C1: a move whose destination holds no blocking entity and is not
\* walkable consumes no turn: player, monsters, entity list, kill counter,
\* ground items and the visible and explored masks stay as they are, and no
\* monster AI step runs.
C1_WallBumpStep ==
    (IsMove /\ MoveTarget = 0 /\ ~MoveWalkable) =>
        /\ UNCHANGED <<player, entities, kills, ground_items, visible, explored>>
        /\ ai_steps' = <<>>
        /\ ticks' = 0
C1_WallBumpConsumesNoTurn == [][C1_WallBumpStep]_vars

\* A wall was bumped: the last call was a move towards a cell that is not
\* walkable, with monsters around that would have acted.
C1_WallBumped ==
    /\ last_input.kind = "action" /\ last_input.name = "move"
    /\ ~walkable(tiles, player.x + last_input.dx, player.y + last_input.dy)
    /\ get_blocking_entity_at(entities, player.x + last_input.dx, player.y + last_input.dy) = 0
    /\ ticks = 0
    /\ \E i \in 1 .. Len(entities) : <<entities[i].x, entities[i].y>> \in visible

\* C2: a move into a walkable free cell and an attack are followed in the
\* same call by the enemy phase: every monster still in the entity list
\* takes its AI step exactly once, in list order, and a monster killed by
\* the attack takes none.
C2_EnemyPhaseStep ==
    (IsMove /\ (MoveTarget # 0 \/ MoveWalkable)) =>
        /\ ai_steps' = Ids(entities')
        /\ \A i \in 1 .. Len(entities) :
               entities[i].id \notin Range(Ids(entities')) =>
                   entities[i].id \notin Range(ai_steps')
        /\ ticks' = 1
C2_EnemyPhaseAfterMoveOrAttack == [][C2_EnemyPhaseStep]_vars

\* An attack killed the second zombie of three; the first and the third
\* took their steps.
C2_KillThenPhase ==
    /\ last_input.kind = "action" /\ last_input.name = "move"
    /\ kills = 1
    /\ ai_steps = <<1, 3>>
    /\ Ids(entities) = <<1, 3>>

\* C3: an attack that leaves its target at hp <= 0 removes the target from
\* the entity list in the same call, before the enemy phase, and adds
\* exactly 1 to the kill counter; when the target survives, the entity list
\* and the kill counter are unchanged.
C3_AttackStep ==
    (IsMove /\ MoveTarget # 0) =>
        LET t == MoveTarget
        IN  /\ \A i \in 1 .. Len(entities') : entities'[i].hp > 0
            /\ \/ /\ Ids(entities') = RemoveAt(Ids(entities), t)
                  /\ kills' = kills + 1
                  /\ entities[t].id \notin Range(ai_steps')
               \/ /\ Ids(entities') = Ids(entities)
                  /\ kills' = kills
C3_KillRemovesTargetAndCounts == [][C3_AttackStep]_vars

\* An attack was survived by its target, which was hurt.
C3_TargetSurvived ==
    /\ last_input.kind = "action" /\ last_input.name = "move"
    /\ kills = 0
    /\ \E i \in 1 .. Len(entities) : entities[i].hp < entities[i].max_hp

\* The game is over: the game_over flag is set, or the state variable holds
\* GameState.GAME_OVER.
InGameOver(st, flag) == flag \/ st = "game_over"

\* C4: when the enemy phase ends with the player's hp <= 0 the game is over
\* (the state variable holds GAME_OVER, or the game_over flag is set), and
\* the game becomes over in no other way.
C4_GameOverStep ==
    /\ (ticks' = 1 /\ player'.hp <= 0) => InGameOver(state', game_over')
    /\ (~InGameOver(state, game_over) /\ InGameOver(state', game_over')) =>
           /\ ticks' = 1
           /\ ai_steps' = Ids(entities')
           /\ player'.hp <= 0
C4_GameOverIffDeadAfterEnemyPhase == [][C4_GameOverStep]_vars

\* The enemy phase of the last call left the player at hp <= 0 and the game
\* over.
C4_DiedInEnemyPhase ==
    /\ ticks = 1
    /\ Len(ai_steps) = 3
    /\ player.hp <= 0
    /\ game_over

\* C5: once the game is over, every input but R changes nothing (player,
\* monsters, entity list, kill counter, ground items, map) and runs no AI
\* step, Escape being answered with "quit"; and the flag is only ever set
\* while the state variable holds PLAYING, so no menu branch of the dispatch
\* can come before the game-over branch.
C5_AfterGameOverStep ==
    /\ game_over' => state' = "playing"
    /\ (game_over /\ last_input' # KeyInput("r")) =>
           /\ UNCHANGED <<state, game_over, player, entities, kills, ground_items, tiles,
                          visible, explored, inventory_screen, pause_selection>>
           /\ ai_steps' = <<>>
           /\ ticks' = 0
           /\ (ret'.value = "quit") <=> (last_input' = KeyInput("ESCAPE"))
C5_GameOverAcceptsOnlyQuitAndRestart == [][C5_AfterGameOverStep]_vars

\* The inventory key was pressed after the game was over, with monsters in
\* view, and a menu had been used earlier in the game.
C5_KeyPressedAfterGameOver ==
    /\ game_over
    /\ last_input = KeyInput("i")
    /\ savefile # NoFile
    /\ \E i \in 1 .. Len(entities) : <<entities[i].x, entities[i].y>> \in visible

\* C6: a wait always consumes a turn: the enemy phase with one AI step per
\* monster, the game-over check and one effects tick; the wait itself moves
\* nobody: the entity list keeps its members, and the player stands where
\* they stood unless a monster attacked in that enemy phase.
C6_WaitStep ==
    (last_input' = ActionInput("wait", 0, 0)) =>
        /\ ai_steps' = Ids(entities)
        /\ Ids(entities') = Ids(entities)
        /\ ticks' = 1
        /\ turns' = turns + 1
        /\ game_over' <=> (player'.hp <= 0)
        /\ ("monster_attack" \notin Range(msgs')) =>
               (player'.x = player.x /\ player'.y = player.y)
        /\ kills' = kills
        /\ UNCHANGED <<ground_items, visible, explored, state>>
C6_WaitConsumesTurn == [][C6_WaitStep]_vars

\* A wait next to two zombies: all three took their step and the player
\* was hurt.
C6_Waited ==
    /\ last_input = ActionInput("wait", 0, 0)
    /\ ai_steps = <<1, 2, 3>>
    /\ ticks = 1
    /\ player.hp < player.max_hp

\* C7: while the state is INVENTORY or PAUSED, and in the call that opens
\* either menu, no AI step runs, no monster changes (position, hp, list
\* membership) and the player stays on their cell; a menu is left for
\* PLAYING only.
C7_MenuStep ==
    (state # "playing" \/ state' # "playing") =>
        /\ ai_steps' = <<>>
        /\ ticks' = 0
        /\ turns' = turns
        /\ entities' = entities
        /\ kills' = kills
        /\ player'.x = player.x /\ player'.y = player.y
        /\ state' \in {"playing", "inventory", "paused"}
        /\ (state # "playing" /\ state' # state) => state' = "playing"
        /\ UNCHANGED <<tiles, game_over, visible, explored>>
C7_MenusSuspendTheTurnClock == [][C7_MenuStep]_vars

\* The inventory was closed after the knife was equipped and the bandage
\* dropped, with a zombie standing next to the player.
C7_ClosedAfterEquipAndDrop ==
    /\ state = "playing"
    /\ last_input = MenuInput
    /\ player.equipped_weapon.id = "knife"
    /\ player.inventory = <<>>
    /\ get_ground_items(ground_items, player.x, player.y) = <<create_item("bandage")>>
    /\ \E i \in 1 .. Len(entities) :
           Max(Abs(entities[i].x - player.x), Abs(entities[i].y - player.y)) = 1

IsSave == last_input' = ActionInput("save", 0, 0)
IsLoad == last_input' = ActionInput("load", 0, 0)

\* C8: save and load run no enemy phase; save changes nothing of the game
\* but its message log; a load that succeeded leaves the state PLAYING, the
\* game_over flag clear and the visible mask equal to the field of view
\* from the loaded player's cell on the loaded map.
C8_SaveLoadStep ==
    /\ (IsSave \/ IsLoad) =>
           /\ ai_steps' = <<>>
           /\ ticks' = 0
           /\ turns' = turns
    /\ IsSave =>
           /\ UNCHANGED <<state, game_over, player, entities, ground_items, kills, tiles,
                          visible, explored>>
           /\ Len(msgs') = 1
    /\ (IsLoad /\ ret'.io = "ok") =>
           /\ state' = "playing"
           /\ ~game_over'
           /\ visible' = FovOf(Opaque(tiles'), <<player'.x, player'.y>>, get_fov_radius)
           /\ player' = deserialize_player(savefile.data[1].player)
C8_SaveLoadTakeNoTurn == [][C8_SaveLoadStep]_vars

\* A save made before the first turn was loaded after it.
C8_LoadedEarlierSave ==
    /\ last_input = ActionInput("load", 0, 0)
    /\ ret.io = "ok"
    /\ turns = 1
    /\ savefile.kind = "snapshot"
    /\ player = NewPlayer(PlayerStart[1], PlayerStart[2])
    /\ tiles[DoorCell] = "wall"
    /\ <<player.x, player.y>> \in visible

\* C9: a load that fails leaves map, player, entity list, ground items,
\* kill counter and state exactly as they were, and so does a save that
\* fails.
C9_FailedIoStep ==
    ((IsLoad \/ IsSave) /\ ret'.io = "failed") =>
        UNCHANGED <<tiles, visible, explored, player, entities, ground_items, kills, state,
                    game_over>>
C9_FailedLoadOrSaveChangesNothing == [][C9_FailedIoStep]_vars

\* A load failed at the second zombie of the file, whose type is unknown:
\* the saved map and player are in place, only the first zombie is in the
\* entity list and nothing is visible.
C9_HalfLoaded ==
    /\ last_input = ActionInput("load", 0, 0)
    /\ ret.io = "failed"
    /\ savefile.kind = "snapshot"
    /\ Len(savefile.data[1].monsters) = 2
    /\ Len(entities) = 1
    /\ player = deserialize_player(savefile.data[1].player)
    /\ tiles[DoorCell] = "wall"
    /\ visible = {}

\* C10: the player's hp is never negative.
C10_HpNeverNegative == player.hp >= 0

\* Two zombies hit the player in one enemy phase and the hp went below 0.
C10_HpBelowZero ==
    /\ player.hp < 0
    /\ ticks = 1
    /\ game_over

\* C11: the inventory never holds more than max_inventory_size entries; a
\* pickup or an unequip that fails leaves the inventory, the equipment slots
\* and the ground items as they were, and with a full inventory a pickup
\* that cannot stack and every unequip of a worn item fail.
C11_CapacityStep ==
    /\ Len(player'.inventory) <= max_inventory_size
    /\ (last_input' = ActionInput("pickup", 0, 0) /\ msgs' = <<"inventory_full">>) =>
           UNCHANGED <<player, ground_items>>
    /\ (last_input' = CallInput("unequip_item", 0) /\ ret'.io = "failed") =>
           UNCHANGED <<player, ground_items>>
    /\ (last_input' = ActionInput("pickup", 0, 0)
          /\ Len(player.inventory) = max_inventory_size
          /\ Len(player'.inventory) = Len(player.inventory)
          /\ msgs' = <<"picked_up">>) =>
           \E i \in 1 .. Len(player.inventory) :
               /\ player'.inventory[i].stack_size > player.inventory[i].stack_size
               /\ player'.inventory[i].stack_size <= ITEMS[player.inventory[i].id].max_stack
    /\ (last_input' = CallInput("unequip_item", 0)
          /\ Len(player.inventory) = max_inventory_size) => ret'.io = "failed"
C11_InventoryWithinCapacity == [][C11_CapacityStep]_vars

\* With 20 entries carried, a pickup of an item that cannot be stacked was
\* refused and the item lies on the pile.
C11_FullAndRefused ==
    /\ Len(player.inventory) = max_inventory_size
    /\ last_input = ActionInput("pickup", 0, 0)
    /\ msgs = <<"inventory_full">>
    /\ get_ground_items(ground_items, player.x, player.y) # <<>>
    /\ player.equipped_armor # NoItem

IsGainXp == last_input'.kind = "call" /\ last_input'.name = "gain_xp"

\* C12: an award of at least twice xp_to_next_level raises the level by at
\* least 2 within the one gain_xp call and leaves xp strictly below the new
\* xp_to_next_level.
C12_CascadeStep ==
    (IsGainXp /\ last_input'.dx >= 2 * player.xp_to_next_level) =>
        /\ player'.level >= player.level + 2
        /\ player'.xp < player'.xp_to_next_level
C12_LargeAwardCascades == [][C12_CascadeStep]_vars

\* gain_xp(250) was called at level 1 with 100 XP to the next level: the
\* player is at level 2 with 150 XP of 150, not below the new threshold.
C12_OneLevelOnly ==
    /\ last_input = CallInput("gain_xp", 250)
    /\ player.level = 2
    /\ player.xp = 150
    /\ player.xp_to_next_level = 150

\* The effect of one award on the XP fields: below the threshold only xp
\* changes; at or above it one level-up step is taken.
XpEffect(p, q, amount) ==
    LET total == p.xp + amount
    IN  IF total < p.xp_to_next_level
            THEN /\ q.xp = total
                 /\ q.level = p.level
                 /\ q.xp_to_next_level = p.xp_to_next_level
                 /\ q.max_hp = p.max_hp
            ELSE /\ q.level = p.level + 1
                 /\ q.xp = total - p.xp_to_next_level
                 /\ 2 * q.xp_to_next_level <= 3 * p.xp_to_next_level
                 /\ 3 * p.xp_to_next_level < 2 * q.xp_to_next_level + 2
                 /\ q.max_hp = p.max_hp + 5 + vitality \div 2

\* C13: a kill awards exactly 10 + target.max_hp XP; a level-up step adds 1
\* to level, takes the old threshold from xp, sets xp_to_next_level to
\* floor(1.5 x old), adds 5 + vitality div 2 to max_hp and sets hp to the new
\* max_hp (after a kill the enemy phase of the same call may then lower hp);
\* an award that leaves xp below the threshold changes only xp.
C13_XpStep ==
    /\ IsGainXp =>
           /\ XpEffect(player, player', last_input'.dx)
           /\ IF player.xp + last_input'.dx >= player.xp_to_next_level
                  THEN player'.hp = player'.max_hp
                  ELSE player' = [player EXCEPT !.xp = @ + last_input'.dx]
    /\ (IsMove /\ kills' # kills) =>
           /\ MoveTarget # 0
           /\ XpEffect(player, player', 10 + entities[MoveTarget].max_hp)
           /\ player'.hp <= player'.max_hp
           /\ ("monster_attack" \notin Range(msgs')) =>
                  player'.hp = IF player'.level > player.level THEN player'.max_hp
                               ELSE player.hp
    /\ (~IsGainXp /\ kills' = kills /\ last_input'.name # "r") =>
           /\ player'.xp = player.xp
           /\ player'.level = player.level
           /\ player'.xp_to_next_level = player.xp_to_next_level
           /\ player'.max_hp = player.max_hp
C13_KillXpAndLevelUp == [][C13_XpStep]_vars

\* The player, 90 XP into level 1, killed the CRAWLER (max_hp 5): level 2
\* with 5 XP of 150 and max_hp 29, at full hp because the BRUTE then missed.
C13_LevelledUpByKill ==
    /\ last_input.kind = "action" /\ last_input.name = "move"
    /\ kills = 1
    /\ player.level = 2
    /\ player.xp = 5
    /\ player.xp_to_next_level = 150
    /\ player.max_hp = get_max_hp + 5
    /\ player.hp = player.max_hp

(***************************************************************************)
(* Positions of the blocking entities.                                     *)
(***************************************************************************)
CellOf(e) == <<e.x, e.y>>
Chebyshev(a, b) == Max(Abs(a[1] - b[1]), Abs(a[2] - b[2]))
IsWait == last_input = ActionInput("wait", 0, 0)

\* C14: in every reachable state no two blocking entities stand on the same
\* cell: no monster stands on the player's cell and no two monsters stand on
\* one cell, after spawning, player moves, chase steps (fallbacks and the
\* FAST second step included) and knockback of a monster or of the player.
C14_NoSharedCell ==
    /\ \A i \in 1 .. Len(entities) : CellOf(entities[i]) # CellOf(player)
    /\ \A i, j \in 1 .. Len(entities) :
           i # j => CellOf(entities[i]) # CellOf(entities[j])

\* A wait in the arena after which the first zombie, whose diagonal and
\* horizontal steps were occupied, stands one cell lower, and the FAST
\* zombie, whose diagonal step was occupied, one cell to the right.
C14_SteppedAroundOthers ==
    /\ IsWait
    /\ tiles = ArenaDungeon.tiles
    /\ Len(entities) = Len(FallbackPlan)
    /\ CellOf(entities[1]) = <<1, 2>>
    /\ CellOf(entities[2]) = <<2, 2>>
    /\ CellOf(entities[4]) = <<2, 3>>

\* The outermost ring of the grid, and the cells whose walkability a move,
\* a chase step or a knockback of an entity standing on c can look up.
OnRing(c) == c[1] = 0 \/ c[1] = MapWidth - 1 \/ c[2] = 0 \/ c[2] = MapHeight - 1
Lookups(c) == {<<c[1] + d[1], c[2] + d[2]>> : d \in {0 - 1, 0, 1} \X {0 - 1, 0, 1}}
Standing == {CellOf(player)} \cup {CellOf(entities[i]) : i \in 1 .. Len(entities)}

\* C15: the player and every monster stand on an in-bounds walkable cell.
\* generate_dungeon leaves the outermost ring wall (no room, tunnel or door
\* reaches it) and starts the player on floor; in every reachable state the
\* ring is wall, every entity stands on a walkable cell of the grid, and
\* every cell looked up around an entity lies inside the grid, so that no
\* index is negative or out of range.
C15_EntitiesOnWalkableCells ==
    /\ \A d \in DungeonsFrom(RoomDraws) :
           /\ \A c \in Cells : OnRing(c) => d.tiles[c] = "wall"
           /\ d.tiles[d.start] = "floor"
    /\ \A r \in RoomDraws : \A k \in 1 .. Len(DoorTries(r)) :
           OnRing(DoorTries(r)[k].cell)
               => ~in_bounds(DoorTries(r)[k].outside[1], DoorTries(r)[k].outside[2])
    /\ [](/\ \A c \in Cells : OnRing(c) => tiles[c] = "wall"
          /\ \A c \in Standing :
                 /\ c \in Cells
                 /\ TileWalkable(tiles[c])
                 /\ Lookups(c) \subseteq Cells)

\* The player hit the brute standing diagonally against the top wall of
\* the arena hard enough for a knockback; the cell behind it is wall, and
\* the brute stands where it stood.
C15_KnockbackIntoWallRefused ==
    /\ last_input = ActionInput("move", 0 - 1, 0 - 1)
    /\ tiles = ArenaDungeon.tiles
    /\ Len(entities) = Len(FallbackPlan)
    /\ entities[3].hp <= entities[3].max_hp - 6
    /\ CellOf(entities[3]) = <<2, 1>>
    /\ ~TileWalkable(tiles[<<1, 0>>])

\* C16: at the end of every call every monster in the entity list has
\* hp > 0, and the kill counter plus the number of monsters in the list is
\* what it was before the call (the number spawned at game start).
C16_ConservationStep ==
    /\ \A i \in 1 .. Len(entities') : entities'[i].hp > 0
    /\ kills' + Len(entities') = kills + Len(entities)
Destination == <<player.x + last_input'.dx, player.y + last_input'.dy>>
Count(seq, e) == Cardinality({k \in 1 .. Len(seq) : seq[k] = e})

\* C17 as stated: when the destination of a move holds a blocking monster,
\* the player is not on the destination cell at the end of that call.
C17_StatedStep == (IsMove /\ MoveTarget # 0) => CellOf(player') # Destination
C17_AttackNeverEntersDestination == [][C17_StatedStep]_vars

\* C17: when the destination of a move holds a blocking monster, the
\* player's own action (the attack and the kill branch) leaves the player
\* where they stood, whether or not the monster dies; at the end of the call
\* the player stands elsewhere only if monsters attacked in the enemy phase
\* of that call, and then at most one cell further per attack (knockback).
C17_OwnActionStep ==
    (IsMove /\ MoveTarget # 0) =>
        /\ \A g \in PlayerAttack(tiles, Turn, MoveTarget) : CellOf(g.player) = CellOf(player)
        /\ "player_attack" \in Range(msgs')
        /\ Chebyshev(CellOf(player'), CellOf(player)) <= Count(msgs', "monster_attack")
C17_OwnActionNeverMovesPlayer == [][C17_OwnActionStep]_vars

\* The flanked player killed the crawler on the left; the zombie on the
\* right then landed a critical hit and knocked the player into the cell the
\* crawler had stood on.
C17_KnockedIntoEmptiedCell ==
    /\ last_input = ActionInput("move", 0 - 1, 0)
    /\ tiles = ArenaDungeon.tiles
    /\ kills = 1
    /\ Len(entities) = Len(FlankPlan) - 1
    /\ CellOf(player) = <<ArenaDungeon.start[1] - 1, ArenaDungeon.start[2]>>
    /\ Count(msgs, "monster_attack") = 1

\* The knockback rule for one attack with outcome o, the attacker on cell a
\* and the defender on cell d among the monsters ents: where the two stand
\* afterwards (a2, d2).  The cell behind the defender lies inside the grid,
\* so looking it up raises no error.
KnockbackRule(tiles_, ents, a, d, o, a2, d2) ==
    LET behind == <<d[1] + Sign(d[1] - a[1]), d[2] + Sign(d[2] - a[2])>>
        triggered == o.result = "CRITICAL" \/ (o.result = "HIT" /\ o.damage >= 6)
        free == /\ tiles_[behind] = "floor"
                /\ \A j \in 1 .. Len(ents) : CellOf(ents[j]) # behind
    IN  /\ behind \in Cells
        /\ a2 = a
        /\ d2 = (IF triggered /\ free THEN behind ELSE d)

\* The calls of take_turn in which the monster attacks.
AttackCalls(tiles_, g) ==
    {c \in TakeTurnCalls(tiles_, g) :
        /\ CellOf(c.game.entities[c.i]) \in c.game.visible
        /\ Chebyshev(CellOf(c.game.entities[c.i]), CellOf(c.game.player)) <= 1}

\* C18: for every attack the player can make in a call from the current
\* state and every attack a monster can make in the enemy phase of that
\* call, with every outcome of the rolls: the defender is pushed exactly when the
\* attack is CRITICAL or a HIT of damage >= 6 (never on MISS or BLOCKED) and
\* the cell one step away from the attacker is walkable and holds no
\* blocking entity; it then stands on that cell, and otherwise where it
\* stood; the attacker stands where it stood.
C18_KnockbackRule ==
    (Playing /\ TurnsLeft) =>
    /\ \A d \in Dirs :
           LET t == get_blocking_entity_at(entities, player.x + d[1], player.y + d[2])
           IN  t # 0 =>
                   \A o \in AttackOutcomes(PlayerAttacker(player), MonsterDefender(entities[t])) :
                       LET h == PlayerHit(tiles, Turn, t, o)
                       IN  /\ KnockbackRule(tiles, entities, CellOf(player), CellOf(entities[t]),
                                            o, CellOf(h.player), CellOf(h.entities[t]))
                           /\ \A j \in 1 .. Len(entities) :
                                  j # t => h.entities[j] = entities[j]
    /\ \A c \in AttackCalls(tiles, Turn) :
           LET g == c.game
               m == g.entities[c.i]
           IN  \A o \in AttackOutcomes(MonsterAttacker(m), PlayerDefender(g.player)) :
                   LET h == attack_player(tiles, g, c.i, o)
                   IN  /\ KnockbackRule(tiles, g.entities, CellOf(m), CellOf(g.player),
                                        o, CellOf(h.entities[c.i]), CellOf(h.player))
                       /\ h.entities = g.entities

\* The player hit the skeleton on the left for 6 and pushed it one cell
\* further left, where it still stands at the end of the call; the zombie
\* behind it has stepped into the cell it left.
C18_SkeletonKnockedBack ==
    /\ last_input = ActionInput("move", 0 - 1, 0)
    /\ tiles = ArenaDungeon.tiles
    /\ Len(entities) = Len(FallbackPlan)
    /\ entities[2].zombie_type = "SKELETON"
    /\ entities[2].hp = entities[2].max_hp - 6
    /\ CellOf(entities[2]) = <<ArenaDungeon.start[1] - 2, ArenaDungeon.start[2]>>
    /\ CellOf(entities[1]) = <<ArenaDungeon.start[1] - 1, ArenaDungeon.start[2]>>

\* C19: in every call of take_turn the enemy phase of a call from the
\* current state can make, a monster whose cell is not in the visible mask does nothing: its
\* position, the player's hp and position, all other entities, the ground
\* items, the kill counter and the messages are as before the call.
C19_InvisibleMonsterIdle ==
    (Playing /\ TurnsLeft) =>
    \A c \in TakeTurnCalls(tiles, Turn) :
        CellOf(c.game.entities[c.i]) \notin c.game.visible =>
            \A h \in take_turn(tiles, c.game, c.i) :
                [h EXCEPT !.ai_steps = c.game.ai_steps] = c.game

\* A wait in the chambers: take_turn ran for both zombies; the one in the
\* far chamber, four cells from the player and out of sight, stands where
\* it was spawned, and the FAST one has come two cells down the tunnel.
C19_HiddenZombieStayed ==
    /\ IsWait
    /\ tiles = ChamberDungeon.tiles
    /\ ai_steps = Ids(HiddenPlan)
    /\ entities[1] = HiddenPlan[1]
    /\ CellOf(entities[1]) \notin visible
    /\ Chebyshev(CellOf(entities[1]), CellOf(player)) = 4
    /\ CellOf(entities[2]) # CellOf(HiddenPlan[2])

\* The rule of one chase step of a monster on cell pos towards cell target,
\* among the monsters ents: the cell new it stands on afterwards.
ChaseStepRule(tiles_, ents, pos, target, new) ==
    LET sx == Sign(target[1] - pos[1])
        sy == Sign(target[2] - pos[2])
        diag == <<pos[1] + sx, pos[2] + sy>>
        hor == <<pos[1] + sx, pos[2]>>
        ver == <<pos[1], pos[2] + sy>>
        Floor(c) == tiles_[c] = "floor"
        Occupied(c) == \E j \in 1 .. Len(ents) : CellOf(ents[j]) = c
        Free(c) == Floor(c) /\ ~Occupied(c)
        Both == sx # 0 /\ sy # 0
    IN  /\ {diag, hor, ver} \subseteq Cells
        /\ Free(diag) => new = diag
        /\ (Floor(diag) /\ Occupied(diag) /\ Both /\ Free(hor)) => new = hor
        /\ (Floor(diag) /\ Occupied(diag) /\ Both /\ ~Free(hor) /\ Free(ver)) => new = ver
        /\ (Floor(diag) /\ Occupied(diag) /\ (~Both \/ (~Free(hor) /\ ~Free(ver)))) => new = pos
        /\ ~Floor(diag) => new = pos
        /\ Chebyshev(new, target) <= Chebyshev(pos, target)

\* The rule of one call of take_turn for a monster in sight, made in game g
\* for entities[i].
TakeTurnRule(tiles_, g, i) ==
    LET m == g.entities[i]
        pos == CellOf(m)
        target == CellOf(g.player)
        distance == Chebyshev(pos, target)
        g1 == [g EXCEPT !.ai_steps = Append(@, m.id)]
    IN  \A h \in take_turn(tiles_, g, i) :
            IF distance <= 1
                THEN /\ h.entities = g.entities
                     /\ h.msgs = Append(g.msgs, "monster_attack")
            ELSE IF distance <= 8
                THEN /\ h = [g1 EXCEPT !.entities[i].x = h.entities[i].x,
                                       !.entities[i].y = h.entities[i].y]
                     /\ IF m.zombie_type = "FAST" /\ distance > 2
                            THEN \E mid \in Lookups(pos) :
                                     /\ ChaseStepRule(tiles_, g.entities, pos, target, mid)
                                     /\ ChaseStepRule(tiles_, MoveMonster(g.entities, i, mid),
                                                      mid, target, CellOf(h.entities[i]))
                            ELSE ChaseStepRule(tiles_, g.entities, pos, target,
                                               CellOf(h.entities[i]))
            ELSE h = g1

\* A game on the arena with one zombie in sight at (1, 2) and the player in
\* the same row, dist cells to the right.
FarGame(dist) ==
    [player |-> NewPlayer(1 + dist, 2),
     entities |-> << spawn_zombie(1, 1, 2, "ZOMBIE") >>,
     ground_items |-> <<>>, kills |-> 0, game_over |-> FALSE,
     visible |-> {<<1, 2>>}, explored |-> {<<1, 2>>}, ai_steps |-> <<>>, msgs |-> <<>>,
     ticks |-> 0]

\* C20: a monster in sight attacks the player, and does not move, iff its
\* Chebyshev distance to the player is <= 1; at a distance in 2..8 it does
\* not attack and takes the sign-of-delta step if that cell is free, else,
\* when the cell is occupied by a monster and the step is diagonal, the
\* horizontal-only step, else the vertical-only step, else none (a FAST
\* zombie that started more than 2 away takes a second such step); beyond 8
\* it does nothing; no step increases the distance.  The bound of 8 is
\* checked on take_turn with the player 8 and 9 cells away, the rest in
\* every call of take_turn the enemy phase of a call from a reachable state
\* can make.
C20_VisibleMonsterAttacksOrChases ==
    /\ take_turn(ArenaDungeon.tiles, FarGame(9), 1)
           = {[FarGame(9) EXCEPT !.ai_steps = <<1>>]}
    /\ take_turn(ArenaDungeon.tiles, FarGame(8), 1)
           = {[FarGame(8) EXCEPT !.ai_steps = <<1>>, !.entities[1].x = 2]}
    /\ []((Playing /\ TurnsLeft) =>
             \A c \in TakeTurnCalls(tiles, Turn) :
                 CellOf(c.game.entities[c.i]) \in c.game.visible
                     => TakeTurnRule(tiles, c.game, c.i))

\* A wait in the chambers: the FAST zombie, three cells from the player in
\* the tunnel row, has taken two steps and stands beside the player without
\* having attacked.
C20_FastZombieSteppedTwice ==
    /\ IsWait
    /\ tiles = ChamberDungeon.tiles
    /\ Len(entities) = Len(HiddenPlan)
    /\ entities[2].zombie_type = "FAST"
    /\ CellOf(entities[2]) = <<HiddenPlan[2].x + 2, HiddenPlan[2].y>>
    /\ Chebyshev(CellOf(entities[2]), CellOf(player)) = 1
    /\ msgs = <<"you_wait">>

\* FarGame with a FAST zombie in the place of the zombie.
FastFarGame(dist) ==
    [FarGame(dist) EXCEPT !.entities = << spawn_zombie(1, 1, 2, "FAST") >>]

\* The steps of one call of take_turn, made in game g for entities[i]: two
\* chase steps, the second aimed from the cell the first one reached, iff
\* the monster is a FAST zombie in sight whose distance before the call is
\* in 3..8; one chase step for any other monster in sight at a distance in
\* 2..8; none otherwise; and never onto the player's cell.
StepCountRule(tiles_, g, i) ==
    LET m == g.entities[i]
        pos == CellOf(m)
        target == CellOf(g.player)
        distance == Chebyshev(pos, target)
        seen == pos \in g.visible
    IN  \A h \in take_turn(tiles_, g, i) :
            LET new == CellOf(h.entities[i])
            IN  /\ new # target
                /\ IF seen /\ m.zombie_type = "FAST" /\ distance > 2 /\ distance <= 8
                       THEN \E mid \in Lookups(pos) :
                                /\ ChaseStepRule(tiles_, g.entities, pos, target, mid)
                                /\ ChaseStepRule(tiles_, MoveMonster(g.entities, i, mid),
                                                 mid, target, new)
                   ELSE IF seen /\ distance >= 2 /\ distance <= 8
                       THEN ChaseStepRule(tiles_, g.entities, pos, target, new)
                   ELSE new = pos

\* C21: a FAST zombie takes a second chase step in the same call of take_turn
\* exactly when its distance to the player before the first step is in 3..8,
\* and the second step is aimed from the cell the first step reached; every
\* other monster, and a FAST zombie at distance 2, takes at most one step;
\* no monster ends its turn on the player's cell.  The bound of 8 is checked
\* on take_turn with the player 8 and 9 cells away, the rest in every call
\* of take_turn the enemy phase of a call from a reachable state can make.
C21_FastZombieSecondStep ==
    /\ take_turn(ArenaDungeon.tiles, FastFarGame(9), 1)
           = {[FastFarGame(9) EXCEPT !.ai_steps = <<1>>]}
    /\ take_turn(ArenaDungeon.tiles, FastFarGame(8), 1)
           = {[FastFarGame(8) EXCEPT !.ai_steps = <<1>>, !.entities[1].x = 3]}
    /\ []((Playing /\ TurnsLeft) =>
             \A c \in TakeTurnCalls(tiles, Turn) : StepCountRule(tiles, c.game, c.i))

\* A step of the player down and to the right on the arena: the FAST zombie,
\* then three columns and one row away, has stepped diagonally into the
\* player's row and then straight along it.
C21_SecondStepTurned ==
    /\ last_input = ActionInput("move", 1, 1)
    /\ tiles = ArenaDungeon.tiles
    /\ Len(entities) = Len(SprintPlan)
    /\ entities[1].zombie_type = "FAST"
    /\ CellOf(player) = <<ArenaDungeon.start[1] + 1, ArenaDungeon.start[2] + 1>>
    /\ CellOf(entities[1]) = <<SprintPlan[1].x + 2, SprintPlan[1].y + 1>>

\* The last call was a direct call of the resolver's function name.
IsCall(name) == last_input.kind = "call" /\ last_input.name = name
CallArg == last_input.dx
Clamp(lo, hi, v) == IF v < lo THEN lo ELSE IF v > hi THEN hi ELSE v

\* The accuracy of the attacker and the dodge penalty of the defender, read
\* off the combatants: for the player twice its perception plus the accuracy
\* of its weapon and armour, and three times its total defense (endurance
\* div 2 plus the armour's defense); for a zombie twice its attack, and five
\* times its defense plus 15 for a CRAWLER.
AccuracyOf(side) ==
    IF side = "player"
        THEN 2 * player.stats.perception
               + (IF player.equipped_weapon = NoItem THEN 0
                  ELSE ITEMS[player.equipped_weapon.id].accuracy)
               + (IF player.equipped_armor = NoItem THEN 0
                  ELSE ITEMS[player.equipped_armor.id].accuracy)
        ELSE 2 * ZOMBIE_CONFIGS[entities[1].zombie_type].attack
DefenseOf(side) ==
    IF side = "player"
        THEN ZOMBIE_CONFIGS[entities[1].zombie_type].defense
        ELSE player.stats.endurance \div 2
               + (IF player.equipped_armor = NoItem THEN 0
                  ELSE ITEMS[player.equipped_armor.id].defense)
DodgePenaltyOf(side) ==
    IF side = "player"
        THEN 5 * DefenseOf(side) + (IF entities[1].zombie_type = "CRAWLER" THEN 15 ELSE 0)
        ELSE 3 * DefenseOf(side)

\* C22: for every attacker and defender (the player of any stats and
\* equipment, any zombie type, either way round) calculate_hit_chance
\* returns 85 + accuracy - dodge penalty clamped into 5 .. 95, a CRAWLER
\* defender adding 15 to the penalty, so that some roll in 1 .. 100 hits
\* and some roll misses.
C22_HitChanceClamped ==
    IsCall("calculate_hit_chance") =>
        /\ ret.value = Clamp(5, 95, 85 + AccuracyOf(CallArg.attacker)
                                       - DodgePenaltyOf(CallArg.attacker))
        /\ \E roll \in 1 .. 100 : roll > ret.value
        /\ \E roll \in 1 .. 100 : roll <= ret.value

\* The hit chance of a player of the highest perception with a knife against
\* a CRAWLER: 85 + 30 - 15 is cut down to 95.
C22_ClampedAgainstCrawler ==
    /\ IsCall("calculate_hit_chance")
    /\ CallArg.attacker = "player"
    /\ entities[1].zombie_type = "CRAWLER"
    /\ player.stats.perception = MAX_STAT
    /\ player.equipped_weapon = create_item("knife")
    /\ player.equipped_armor = NoItem
    /\ ret.value = 95

\* The crit bonus of the attacker read off the combatants: for the player its
\* agility plus the crit bonus of its weapon and armour, for a zombie 0.
CritBonusOf(side) ==
    IF side = "player"
        THEN player.stats.agility
               + (IF player.equipped_weapon = NoItem THEN 0
                  ELSE ITEMS[player.equipped_weapon.id].crit_bonus)
               + (IF player.equipped_armor = NoItem THEN 0
                  ELSE ITEMS[player.equipped_armor.id].crit_bonus)
        ELSE 0

\* C23: perform_attack decides the outcome in a fixed order of rolls.  MISS
\* iff the first roll exceeds the hit chance, and then one roll only is drawn,
\* the damage is 0 and the hp and the cells of both combatants are those
\* the game started with; otherwise CRITICAL iff the second roll is <= min(50, 10 + crit
\* bonus); otherwise BLOCKED iff the defender's total defense is >= 3 and a
\* third roll, drawn only in that case, is <= 5 x defense; otherwise HIT.
C23_OutcomeDecidedInRollOrder ==
    IsCall("perform_attack") =>
        LET side == CallArg.attacker
            r == CallArg.rolls
            hit_chance == Clamp(5, 95, 85 + AccuracyOf(side) - DodgePenaltyOf(side))
            crit_chance == Min(50, 10 + CritBonusOf(side))
            defense == DefenseOf(side)
            miss == r.hit > hit_chance
            crit == ~miss /\ r.crit <= crit_chance
            blocked == ~miss /\ ~crit /\ defense >= 3 /\ r.block <= 5 * defense
        IN  /\ ret.value.result = "MISS" <=> miss
            /\ ret.value.result = "CRITICAL" <=> crit
            /\ ret.value.result = "BLOCKED" <=> blocked
            /\ ret.value.result = "HIT" <=> (~miss /\ ~crit /\ ~blocked)
            /\ ret.value.draws
                   = (IF miss THEN 1 ELSE IF crit THEN 2 ELSE IF defense >= 3 THEN 3 ELSE 2)
            /\ miss => /\ ret.value.damage = 0
                       /\ player.hp = player.max_hp
                       /\ CellOf(player) = ArenaDungeon.start
                       /\ entities = << spawn_zombie(1, ArenaDungeon.start[1] - 1,
                                                     ArenaDungeon.start[2],
                                                     entities[1].zombie_type) >>

\* A zombie's attack on a player in riot gear is blocked on the third roll,
\* the first roll having hit and the second not being critical.
C23_BlockedOnThirdRoll ==
    /\ IsCall("perform_attack")
    /\ CallArg.attacker = "monster"
    /\ player.equipped_armor = create_item("riot_gear")
    /\ ret.value.result = "BLOCKED"
    /\ ret.value.draws = 3
    /\ CallArg.rolls.crit > 10

\* The attack power of the attacker read off the combatants: for the player
\* 2 + strength plus the damage of its weapon, for a zombie its attack.
AttackPowerOf(side) ==
    IF side = "player"
        THEN 2 + player.stats.strength
               + (IF player.equipped_weapon = NoItem THEN 0
                  ELSE ITEMS[player.equipped_weapon.id].damage)
        ELSE ZOMBIE_CONFIGS[entities[1].zombie_type].attack

\* attack - defense div 2 + variance of a call, before any multiplier or floor.
RawDamage(side, variance) == AttackPowerOf(side) - DefenseOf(side) \div 2 + variance

\* The hp the defender of a call has lost since the game started, and the hp
\* the attacker has.
DefenderLoss(side) ==
    IF side = "player" THEN entities[1].max_hp - entities[1].hp
    ELSE player.max_hp - player.hp
AttackerLoss(side) ==
    IF side = "player" THEN player.max_hp - player.hp
    ELSE entities[1].max_hp - entities[1].hp

\* The damage perform_attack returns and applies, given the damage a blocked
\* attack is a third of.
DamageRule(BlockedBase(_, _)) ==
    IsCall("perform_attack") =>
        LET side == CallArg.attacker
            variance == CallArg.rolls.variance
            result == ret.value.result
            damage == ret.value.damage
        IN  /\ damage >= 0
            /\ result \in {"HIT", "CRITICAL"} => damage >= 1
            /\ result = "MISS" => damage = 0
            /\ result = "BLOCKED" => damage = BlockedBase(side, variance) \div 3
            /\ DefenderLoss(side) = damage
            /\ AttackerLoss(side) = 0

\* The damage of a hit that is neither critical nor blocked: the raw damage,
\* at least 1.
NormalDamage(side, variance) == Max(1, RawDamage(side, variance))

\* C24 as stated: the damage perform_attack applies is never negative, is
\* >= 1 for HIT and CRITICAL, 0 for MISS, and for BLOCKED the floor of a third
\* of attack - defense div 2 + variance; the defender's hp goes down by
\* exactly the damage returned.
C24_BlockedIsThirdOfRawDamage == DamageRule(RawDamage)

\* C24, amended: the same, with the damage of a BLOCKED attack the floor of
\* a third of max(1, attack - defense div 2 + variance).
C24_BlockedIsThirdOfNormalDamage == DamageRule(NormalDamage)

\* A FAST zombie's attack on a player of the highest endurance in riot gear
\* is blocked: attack - defense div 2 + variance is negative, the damage 0.
C24_BlockedBelowZero ==
    /\ IsCall("perform_attack")
    /\ CallArg.attacker = "monster"
    /\ entities[1].zombie_type = "FAST"
    /\ ret.value.result = "BLOCKED"
    /\ RawDamage("monster", CallArg.rolls.variance) < 0
    /\ ret.value.damage = 0
    /\ player.hp = player.max_hp

\* What calculate_damage returns for the combatants of the last call, the
\* same variance and no critical hit.
NonCriticalDamage ==
    calculate_damage(AttackerOf(CallArg.attacker), DefenderOf(CallArg.attacker), FALSE,
                     CallArg.variance)

Rect(r) == (r.x1 .. r.x2) \X (r.y1 .. r.y2)
RECURSIVE Pick(_, _, _)
Pick(draws, K, k) ==
    IF k > Len(draws) THEN <<>>
    ELSE (IF k \in K THEN <<draws[k]>> ELSE <<>>) \o Pick(draws, K, k + 1)
Generated == IsCall("generate_dungeon") /\ ret.io = "none"
Carved(rooms, horizontal_first) ==
    UNION {inner(rooms[i]) : i \in 1 .. Len(rooms)}
        \cup UNION {tunnel_between(center(rooms[i]), center(rooms[i + 1]), horizontal_first) :
                        i \in 1 .. Len(rooms) - 1}
C26_AcceptedRoomsDisjoint ==
    Generated =>
        LET draws == CallArg.draws
            rooms == ret.value.rooms
        IN  /\ \A i, j \in 1 .. Len(rooms) : i # j => Rect(rooms[i]) \cap Rect(rooms[j]) = {}
            /\ \E K \in SUBSET (1 .. Len(draws)) :
                   /\ rooms = Pick(draws, K, 1)
                   /\ \A k \in (1 .. Len(draws)) \ K :
                          \E j \in K : j < k /\ Rect(draws[j]) \cap Rect(draws[k]) # {}
            /\ {c \in Cells : tiles[c] = "floor"} = Carved(rooms, CallArg.horizontal_first)

\* A call whose second candidate was dropped and whose third was kept.
C26_DroppedThenKept ==
    /\ Generated
    /\ Len(CallArg.draws) = 3
    /\ ret.value.rooms = << CallArg.draws[1], CallArg.draws[3] >>
    /\ CallArg.draws[2] # CallArg.draws[1]

\* C27: whenever generate_dungeon is given at least one candidate, the point
\* it returns (the centre of the first kept room) is a walkable cell, and
\* every interior cell of every kept room is walkable in the tiles returned.
C27_SpawnAndInteriorsWalkable ==
    (IsCall("generate_dungeon") /\ Len(CallArg.draws) >= 1) =>
        /\ ret.io = "none"
        /\ walkable(tiles, ret.value.start[1], ret.value.start[2])
        /\ \A i \in 1 .. Len(ret.value.rooms) :
               \A c \in inner(ret.value.rooms[i]) : walkable(tiles, c[1], c[2])

\* A call that kept one room of width 1 and returned a wall cell.
C27_SpawnOnWall ==
    /\ Generated
    /\ Len(ret.value.rooms) = 1
    /\ ret.value.rooms[1].x2 = ret.value.rooms[1].x1 + 1
    /\ ret.value.start = <<ret.value.rooms[1].x1, ret.value.start[2]>>
    /\ tiles[ret.value.start] = "wall"

\* C28: each try_place_door call of _place_doors changes the tiles only by
\* turning its own cell into a closed door, and only when that cell is wall
\* and the cells inside and outside are cells of the grid holding floor; a
\* floor cell stays floor; every door of the returned dungeon stands between
\* two floor cells.
DoorsAfter(dug, tries, k) == place_doors(dug, SubSeq(tries, 1, k), 1)
C28_DoorOnlyBetweenFloors ==
    Generated =>
        LET dug == DigRooms(CallArg.draws, CallArg.horizontal_first, 1,
                            [c \in Cells |-> "wall"], <<>>).tiles
            tries == AllDoorTries(ret.value.rooms, 1)
        IN  /\ tiles = DoorsAfter(dug, tries, Len(tries))
            /\ \A k \in 1 .. Len(tries) :
                   LET before == DoorsAfter(dug, tries, k - 1)
                       after == DoorsAfter(dug, tries, k)
                       t == tries[k]
                   IN  /\ \A c \in Cells : before[c] = "floor" => after[c] = "floor"
                       /\ after # before =>
                              /\ before[t.cell] = "wall"
                              /\ t.inside \in Cells /\ before[t.inside] = "floor"
                              /\ t.outside \in Cells /\ before[t.outside] = "floor"
                              /\ after = [before EXCEPT ![t.cell] = "door_closed"]
            /\ \A c \in Cells : tiles[c] = "door_closed" =>
                   /\ dug[c] = "wall"
                   /\ \E k \in 1 .. Len(tries) :
                          /\ tries[k].cell = c
                          /\ tries[k].inside \in Cells /\ tiles[tries[k].inside] = "floor"
                          /\ tries[k].outside \in Cells /\ tiles[tries[k].outside] = "floor"

\* A returned dungeon with a door in the top wall of its second room, a
\* tunnel running along that wall outside.
C28_DoorPlaced ==
    /\ Generated
    /\ Len(ret.value.rooms) = 2
    /\ \E c \in Cells :
           /\ tiles[c] = "door_closed"
           /\ c[2] = ret.value.rooms[2].y1
           /\ tiles[<<c[1], c[2] - 1>>] = "floor"
           /\ tiles[<<c[1], c[2] + 1>>] = "floor"

\* C29: a generate_dungeon call that keeps no room still returns, and the
\* point it returns is an interior cell of the grid (not on the outer ring).
C29_ZeroRoomsRecovered ==
    (IsCall("generate_dungeon") /\ CallArg.draws = <<>>) =>
        /\ ret.io = "none"
        /\ ret.value.start[1] \in 1 .. MapWidth - 2
        /\ ret.value.start[2] \in 1 .. MapHeight - 2

\* The call with max_rooms = 0: no room kept, rooms[0] raised IndexError.
C29_ZeroRoomsRaised ==
    /\ IsCall("generate_dungeon")
    /\ CallArg.draws = <<>>
    /\ ret = Returned("none", "IndexError")
    /\ \A c \in Cells : tiles[c] = "wall"

\* C30: over moves, attacks and waits no explored cell becomes unexplored
\* and every visible cell is explored.  A call that moves the player (the
\* only calls of play that recompute the field of view) leaves visible equal
\* to the field of view from the cell stepped on, whatever was visible
\* before, and adds it to explored; every other call leaves both masks as
\* they were.
PlayerStepped ==
    /\ last_input'.kind = "action" /\ last_input'.name = "move"
    /\ \A i \in 1 .. Len(entities) :
           ~(entities[i].x = player.x + last_input'.dx /\ entities[i].y = player.y + last_input'.dy)
    /\ walkable(tiles, player.x + last_input'.dx, player.y + last_input'.dy)
C30_MasksStep ==
    /\ explored \subseteq explored'
    /\ IF PlayerStepped
           THEN /\ visible' = compute_fov(tiles, <<player.x + last_input'.dx,
                                                   player.y + last_input'.dy>>)
                /\ explored' = explored \cup visible'
           ELSE /\ visible' = visible
                /\ explored' = explored
C30_ExploredMonotonic == [](visible \subseteq explored) /\ [][C30_MasksStep]_vars

\* After a step through the tunnel of the two chambers: a cell lit from the
\* start is explored and no longer visible, and a cell never seen before is.
C30_LostSightOfSeenCell ==
    /\ last_input.kind = "action" /\ last_input.name = "move"
    /\ tiles = ChamberDungeon.tiles
    /\ <<player.x, player.y>> # ChamberDungeon.start
    /\ \E c \in compute_fov(tiles, ChamberDungeon.start) : c \in explored /\ c \notin visible
    /\ \E c \in visible : c \notin compute_fov(tiles, ChamberDungeon.start)

\* C31: a generate_dungeon call made with the seed of the call before it
\* returns the same room list, the same tiles and the same spawn point.
C31_SameSeedStep ==
    (last_input.dx.run >= 1 /\ last_input'.dx.seed = last_input.dx.seed) =>
        /\ ret'.value.rooms = ret.value.rooms
        /\ tiles' = tiles
        /\ ret'.value.start = ret.value.start
RECURSIVE UnitsOf(_, _)
UnitsOf(items, id) ==
    IF items = <<>> THEN 0
    ELSE (IF Head(items).id = id THEN Head(items).stack_size ELSE 0) + UnitsOf(Tail(items), id)
C32_PickupStep ==
    (last_input'.kind = "action" /\ last_input'.name = "pickup") =>
        LET here == <<player.x, player.y>>
            items == get_ground_items(ground_items, player.x, player.y)
        IN  IF msgs' = <<"picked_up">>
                THEN /\ items # <<>>
                     /\ get_ground_items(ground_items', player.x, player.y) = Tail(items)
                     /\ DOMAIN ground_items \ {here} = DOMAIN ground_items' \ {here}
                     /\ \A c \in DOMAIN ground_items \ {here} : ground_items'[c] = ground_items[c]
                     /\ \A id \in ItemIds :
                            UnitsOf(player'.inventory, id) =
                                UnitsOf(player.inventory, id)
                                    + (IF id = items[1].id THEN items[1].stack_size ELSE 0)
                ELSE ground_items' = ground_items /\ player' = player
C32_NoEmptyGroundList ==
    /\ [](\A c \in DOMAIN ground_items : c \in Cells /\ ground_items[c] # <<>>)
    /\ [][C32_PickupStep]_vars

\* The second and last item of the player's cell was picked up: the cell is
\* no key any more and the index is empty.
C32_KeyGoneWithLastItem ==
    /\ last_input.kind = "action" /\ last_input.name = "pickup"
    /\ msgs = <<"picked_up">>
    /\ Len(player.inventory) = 2
    /\ DOMAIN ground_items = {}

\* C33: a load made right after a successful save succeeds and gives back
\* the player (cell, hp, max_hp, hunger, thirst, level, xp, threshold,
\* inventory, equipment), the monsters (type, cell, hp, max_hp, in order),
\* the ground items, the walkable cells and the kill counter as they were;
\* a room rectangle rebuilt from x1, y1, x2 - x1, y2 - y1 is the rectangle
\* saved.  C33_RoundTripExact adds that the explored mask is as it was;
\* C33_RoundTripUpToView has instead the explored mask as it was joined
\* with the field of view from the player's cell.
SavedThenLoaded ==
    /\ last_input.kind = "action" /\ last_input.name = "save" /\ ret.io = "ok"
    /\ last_input'.kind = "action" /\ last_input'.name = "load"
C33_Restored ==
    /\ ret'.io = "ok"
    /\ player' = player
    /\ Len(entities') = Len(entities)
    /\ \A i \in 1 .. Len(entities) :
           /\ entities'[i].zombie_type = entities[i].zombie_type
           /\ entities'[i].x = entities[i].x /\ entities'[i].y = entities[i].y
           /\ entities'[i].hp = entities[i].hp /\ entities'[i].max_hp = entities[i].max_hp
    /\ ground_items' = ground_items
    /\ \A c \in Cells : TileWalkable(tiles'[c]) <=> TileWalkable(tiles[c])
    /\ kills' = kills
C33_RoomsRebuilt ==
    \A r \in AnyDraws : RectangularRoom(r.x1, r.y1, r.x2 - r.x1, r.y2 - r.y1) = r
EquippedObjects ==
    {it.obj : it \in {player.equipped_weapon, player.equipped_armor} \ {NoItem}}
C34_SlotsHoldTheirKind ==
    /\ player.equipped_weapon # NoItem =>
           ITEMS[player.equipped_weapon.id].equip_slot = "WEAPON"
    /\ player.equipped_armor # NoItem =>
           ITEMS[player.equipped_armor.id].equip_slot = "ARMOR"
C34_OldItemReturned ==
    /\ (player.equipped_weapon # NoItem /\ player'.equipped_weapon # player.equipped_weapon) =>
           \E i \in 1 .. Len(player'.inventory) : player'.inventory[i] = player.equipped_weapon
    /\ (player.equipped_armor # NoItem /\ player'.equipped_armor # player.equipped_armor) =>
           \E i \in 1 .. Len(player'.inventory) : player'.inventory[i] = player.equipped_armor
C34_EquippedNotInInventory ==
    /\ [](/\ C34_SlotsHoldTheirKind
          /\ \A i \in 1 .. Len(player.inventory) : player.inventory[i].obj \notin EquippedObjects)
    /\ [][C34_OldItemReturned]_vars

\* The second of two jackets was selected and equipped: the first one left
\* the inventory, and the one worn is still the inventory's entry.
C34_WornAndCarried ==
    /\ state = "inventory"
    /\ player.equipped_armor = ItemObject("leather_jacket", 2)
    /\ \E i \in 1 .. Len(player.inventory) : player.inventory[i] = player.equipped_armor
    /\ \A i \in 1 .. Len(player.inventory) : player.inventory[i].obj # 1
    /\ DOMAIN ground_items = {}

\* C35: whenever the game is in play, the visible mask is the field of
\* view from the cell the player stands on.
C35_VisibleFromPlayerCell ==
    Playing => visible = compute_fov(tiles, <<player.x, player.y>>)

\* A zombie's hit has pushed the player to another cell during the turn of
\* a move or attack and the game goes on: the visible mask shows a cell
\* that the cell the player stands on has no view of.
C35_ViewLeftBehind ==
    /\ Playing
    /\ last_input.kind = "action" /\ last_input.name = "move"
    /\ "monster_attack" \in {msgs[i] : i \in 1 .. Len(msgs)}
    /\ visible \ compute_fov(tiles, <<player.x, player.y>>) # {}

\* C36: in a game played from its start, the player's xp is at least 0 and
\* below xp_to_next_level after every call, and the threshold is at least
\* 100, more than any kill awards.
C36_XpBelowThreshold ==
    /\ 0 <= player.xp /\ player.xp < player.xp_to_next_level
    /\ player.xp_to_next_level >= 100
    /\ \A a \in KillAwards : a <= 30

\* A kill has taken the player to the next level with xp left over.
C36_KillLevelledUp ==
    /\ last_input.kind = "action" /\ last_input.name = "move"
    /\ "level_up" \in {msgs[i] : i \in 1 .. Len(msgs)}
    /\ player.level >= 2
    /\ player.xp > 0
    /\ entities = <<>>

\* C37: handle_keys maps every event to None, quit, wait or a move in one
\* of the eight directions; in a game fed key events the state stays
\* PLAYING, no inventory screen opens and no save file is written; the
\* action of every call is one of those four; and an event that reaches
\* handle_keys and is mapped to None changes nothing of the game.
C37_KeyActions ==
    \A event \in KeyEvents :
        handle_keys(event) \in
            {ActionInput("none", 0, 0), ActionInput("quit", 0, 0), ActionInput("wait", 0, 0)}
                \cup {ActionInput("move", d[1], d[2]) : d \in Dirs}
C37_KeyStep ==
    /\ last_input'.kind = "action" =>
           /\ last_input'.name \in {"none", "quit", "wait", "move"}
           /\ last_input'.name = "move" => <<last_input'.dx, last_input'.dy>> \in Dirs
    /\ last_input' = ActionInput("none", 0, 0) =>
           UNCHANGED <<state, game_over, player, entities, ground_items, kills, tiles, visible,
                       explored, inventory_screen, pause_selection, savefile, turns>>
RECURSIVE Grow(_, _)
Grow(tiles_, S) ==
    LET T == S \cup {c \in Cells : /\ TileWalkable(tiles_[c])
                                   /\ \E s \in S : Abs(c[1] - s[1]) + Abs(c[2] - s[2]) = 1}
    IN  IF T = S THEN S ELSE Grow(tiles_, T)
Reach(tiles_, start) == Grow(tiles_, {c \in {start} : TileWalkable(tiles_[c])})
C38_RoomsReachableFromStart ==
    Generated =>
        LET dug == DigRooms(CallArg.draws, CallArg.horizontal_first, 1,
                            [c \in Cells |-> "wall"], <<>>).tiles
            rooms == ret.value.rooms
        IN  /\ \A i \in 1 .. Len(rooms) : inner(rooms[i]) \subseteq Reach(tiles, ret.value.start)
            /\ \A i \in 1 .. Len(rooms) : inner(rooms[i]) \subseteq Reach(dug, ret.value.start)
            /\ \A c \in Cells : tiles[c] = "door_closed" => dug[c] = "wall"

\* A dungeon of two rooms with a door, whose second room is reached from
\* the start point through the tunnel only.
C38_SecondRoomThroughTunnel ==
    /\ Generated
    /\ Len(ret.value.rooms) = 2
    /\ \E c \in Cells : tiles[c] = "door_closed"
    /\ inner(ret.value.rooms[2]) # {}
    /\ inner(ret.value.rooms[2]) \subseteq Reach(tiles, ret.value.start)
    /\ \E c \in Reach(tiles, ret.value.start) :
           c \notin inner(ret.value.rooms[1]) \cup inner(ret.value.rooms[2])

\* C39: a drop from the inventory screen removes the selected entry from
\* the inventory and appends an item with the entry's id and stack size to
\* the ground list of the player's cell, so that the units of every item
\* carried or lying under the player stay what they were.
Dropped == state = "inventory" /\ msgs' = <<"dropped">>
C39_DropStep ==
    Dropped =>
        LET item == player.inventory[inventory_screen.selected_index + 1]
            pile == get_ground_items(ground_items, player.x, player.y)
            pile_after == get_ground_items(ground_items', player.x, player.y)
        IN  /\ player'.inventory = ListRemove(player.inventory, item)
            /\ pile_after = Append(pile, item)
            /\ \A id \in ItemIds :
                   UnitsOf(player'.inventory, id) + UnitsOf(pile_after, id)
                       = UnitsOf(player.inventory, id) + UnitsOf(pile, id)
C39_DropConservesStack == [][C39_DropStep]_vars

\* The stack of three bandages was dropped and picked up again: the player
\* carries one bandage and none lies on the ground.
C39_StackOfThreeCameBackAsOne ==
    /\ last_input = ActionInput("pickup", 0, 0)
    /\ UnitsOf(player.inventory, "bandage") = 1
    /\ UnitsOf(DropPack, "bandage") = 3
    /\ \A c \in DOMAIN ground_items : UnitsOf(ground_items[c], "bandage") = 0
    /\ player.hp = player.max_hp

\* C40: R at game over gives, in that one call, a game in the PLAYING state
\* that is not over, with kill counter 0, no menu open, a new player
\* (level 1, xp 0, hp = max_hp, nothing carried or equipped) on a walkable
\* cell of the new map, the view computed from that cell, and monsters at
\* full hp on walkable cells, no two on one cell and none on the player's;
\* the call runs no enemy phase.  R is handled as restart only when the
\* game is over: every other call keeps the map, and lowers neither the
\* kill counter nor the level nor the explored cells.
FreshGame ==
    /\ state' = "playing" /\ ~game_over'
    /\ kills' = 0
    /\ inventory_screen' = NoScreen /\ pause_selection' = 0
    /\ player' = NewPlayer(player'.x, player'.y)
    /\ walkable(tiles', player'.x, player'.y)
    /\ visible' = compute_fov(tiles', <<player'.x, player'.y>>)
    /\ explored' = visible'
    /\ \A i \in 1 .. Len(entities') :
           LET m == entities'[i]
           IN  /\ walkable(tiles', m.x, m.y)
               /\ <<m.x, m.y>> # <<player'.x, player'.y>>
               /\ m.hp = m.max_hp /\ m.hp = ZOMBIE_CONFIGS[m.zombie_type].hp
               /\ \A j \in 1 .. Len(entities') :
                      j # i => <<entities'[j].x, entities'[j].y>> # <<m.x, m.y>>
    /\ ai_steps' = <<>> /\ ticks' = 0
    /\ msgs' = <<"welcome", "controls">>
C40_RestartStep ==
    /\ last_input' = KeyInput("r") => game_over
    /\ (game_over /\ last_input' = KeyInput("r")) => FreshGame
    /\ ~(game_over /\ last_input' = KeyInput("r")) =>
           /\ tiles' = tiles
           /\ kills' >= kills
           /\ player'.level >= player.level
           /\ explored \subseteq explored'
==========================================================================
